---- MODULE Spec2Model ----
(***************************************************************************)
(* Real-time face anonymization pipeline.                                  *)
(*                                                                         *)
(*   Frame scheduler : the VideoProcessor component (src/unnamed/part_002) *)
(*   Detection hook  : useFaceDetection         (src/unnamed/part_003)     *)
(*   Result cache    : FaceDetectionCache       (src/src/lib/videoUtils.ts)*)
(*                                                                         *)
(* A DetectedFace[] is a sequence of confidences in percent.  A cache key  *)
(* is a number: for the scheduler's canvas of fixed dimensions it is the   *)
(* 100 ms bucket generateCacheKey puts in the key string.                  *)
(***************************************************************************)
EXTENDS Integers, Sequences, FiniteSets, TLC

VARIABLES
    isActive,        \* prop isActive of the current render
    isModelLoaded,   \* useFaceDetection state isModelLoaded of the current render
    processingRef,   \* processingRef.current, the in-flight guard
    frameCountRef,   \* frameCountRef.current
    lastTimeRef,     \* lastTimeRef.current
    loops,           \* processLoop closures with a pending animation-frame callback
    passes,          \* processFrame passes suspended at `await detectFaces`
    now,             \* the clock in ms (performance.now() and Date.now())
    cache,           \* FaceDetectionCache.cache, a Map in insertion order
    droppedFrames,   \* ProcessingStats.droppedFrames
    emitted,         \* the last argument of onStatsUpdate
    applied,         \* applyAnonymization calls made by the last pass that ended
    started,         \* passes begun so far
    lastEvent,       \* the last thing a pass did: "start", "end" or "fail" (it threw)
    ticks,           \* clock advances so far
    log,             \* setCachedResult calls since construction or clear()
    lookup,          \* the last getCachedResult call since then and what it returned
    ops,             \* cache operations performed by the cache's client
    pending,         \* stores left in the client's current run of stores
    dropped,         \* keys of the fresh entries the last clear() removed
    options,         \* the options useAdvancedFaceDetection was called with
    trackedFaces,    \* state trackedFaces, a Map in insertion order
    trackedResults,  \* what the last detectAndTrack call returned
    detected,        \* what detectFaces returned to that call
    detector,        \* what detectFaces did: "skipped", "cached", "returned", "threw"
    before,          \* trackedFaces at the start of that call
    nextId,          \* tracking ids generated so far
    calls,           \* detectAndTrack calls and runs of calls so far
    repeat,          \* the run of calls in progress: calls left, detector result
    silent,          \* per live identity, its consecutive calls without a match
    privacySettings, \* prop privacySettings of the current render
    surface,         \* the pixels of the canvas, as left by the last pass
    passFaces,       \* the faces of the last frame that was rendered
    effects,         \* the faces an effect was called for in that frame, in order
    threw,           \* whether the last of those calls threw
    caller,          \* who rendered it: "component" or "processor" ("none" at first)
    processorFrames, \* processingStats.frameCount of the VideoProcessor class
    activeSince,     \* the clock when isActive last became true
    targetFPS,       \* FrameRateOptimizer.targetFPS
    lastFrameTime,   \* FrameRateOptimizer.lastFrameTime
    frames,          \* the shouldProcessFrame calls so far: time, rate, result
    videoSource,     \* prop videoSource of StreamViewer
    streamRef,       \* streamRef.current of useMediaStream: a stream, or 0 for null
    acquired,        \* per MediaStream getUserMedia returned: its tracks are running
    requests,        \* startStream calls suspended at `await getUserMedia`
    srcObject,       \* video.srcObject: a stream, or 0 for none
    lastCall,        \* the last call of the hook: "none", "startStream", "stopStream"
    viewerProcessing, \* prop isProcessing of the last render of StreamViewer
    viewerDirty,     \* that render changed a dependency of the loop effect, which
                     \* has not run yet
    viewerEffect,    \* the last run of the loop effect: whether it left a cleanup,
                     \* and the animationId of its closure
    animationFrames, \* the pending animation-frame callbacks of the viewer
    viewerOutput,    \* frames drawn, statistics emitted and animation frames
                     \* requested by the viewer so far
    mediaRecorder,   \* VideoStreamHandler.mediaRecorder: a recorder, or 0 for null
    recorders,       \* the MediaRecorders constructed: state, queued events, onstop
    recordedChunks,  \* VideoStreamHandler.recordedChunks: per chunk, its recorder
    recording,       \* how the last startRecording or stopRecording call ended
    blobs,           \* the blobs stopRecording resolved with: recorder and chunks
    pixelateCalls    \* the applyPixelateEffect calls made on the canvas since the
                     \* frame was drawn: x, y, width, height, pixelSize

vars == <<isActive, isModelLoaded, processingRef, frameCountRef, lastTimeRef, loops,
          passes, now, cache, droppedFrames, emitted, applied, started, lastEvent,
          ticks, log, lookup, ops, pending, dropped, options, trackedFaces,
          trackedResults, detected, detector, before, nextId, calls, repeat, silent,
          privacySettings, surface, passFaces, effects, threw, caller,
          processorFrames, activeSince, targetFPS, lastFrameTime, frames,
          videoSource, streamRef, acquired, requests, srcObject, lastCall,
          viewerProcessing, viewerDirty, viewerEffect, animationFrames,
          viewerOutput, mediaRecorder, recorders, recordedChunks, recording, blobs,
          pixelateCalls>>

clientVars == <<log, lookup, ops, pending, dropped>>

trackVars == <<options, trackedFaces, trackedResults, detected, detector, before,
               nextId, calls, repeat, silent>>

effectVars == <<privacySettings, surface, passFaces, effects, threw, caller,
                processorFrames>>

optimizerVars == <<targetFPS, lastFrameTime, frames>>

streamVars == <<videoSource, streamRef, acquired, requests, srcObject, lastCall>>

viewerVars == <<viewerProcessing, viewerDirty, viewerEffect, animationFrames,
                viewerOutput>>

recorderVars == <<mediaRecorder, recorders, recordedChunks, recording, blobs>>

\* The render loop of StreamViewer, the recorder and the calls of
\* applyPixelateEffect by itself.
sideVars == <<viewerVars, recorderVars, pixelateCalls>>

\* What the face-processing component and its hooks leave alone.
restVars == <<activeSince, optimizerVars, streamVars, sideVars>>

schedVars == <<isActive, isModelLoaded, processingRef, frameCountRef, lastTimeRef,
               loops, passes, droppedFrames, emitted, applied, started, lastEvent,
               ticks>>

----------------------------------------------------------------------------
(* Bounds of the model *)

MaxLoops == 1
MaxInFlight == 2
MaxStarted == 2
MaxTicks == 1
MaxOps == 5
MaxCalls == 2
MaxAsked == 3
MaxStreams == 4
MaxAnimationFrames == 6
MaxRecorders == 3
MaxPixelateCalls == 2

(* Program constants *)

cacheTimeout == 100
cacheCapacity == 50
keyResolution == 100
statsWindow == 1000
detectionSensitivity == 70
defaultBlurIntensity == 20
defaultTargetFPS == 30

Loops == 1..MaxLoops

\* What the detector may return: no face, or one face of confidence 0.9.
DetectorResults == {<< >>, <<90>>}

\* Clock advances: within one key bucket, and past a statistics window.
TickSteps == {keyResolution \div 2, statsWindow}

----------------------------------------------------------------------------
(* FaceDetectionCache *)

CacheIndex(c, key) ==
    IF \E i \in 1..Len(c) : c[i].key = key
    THEN CHOOSE i \in 1..Len(c) : c[i].key = key
    ELSE 0

CacheKeys(c) == {c[i].key : i \in 1..Len(c)}

Miss == [hit |-> FALSE, faces |-> << >>]

\* A variant that still hits at an age of exactly the timeout (<= for <).
GetCachedResult_Inclusive(c, key, t) ==
    LET i == CacheIndex(c, key) IN
    IF i # 0 /\ t - c[i].timestamp <= cacheTimeout
    THEN [hit |-> TRUE, faces |-> c[i].faces]
    ELSE Miss

\* getCachedResult: the faces, or null (Miss).
GetCachedResult(c, key, t) ==
    LET i == CacheIndex(c, key) IN
    IF i # 0 /\ t - c[i].timestamp < cacheTimeout
    THEN [hit |-> TRUE, faces |-> c[i].faces]
    ELSE Miss

\* A variant that leaves the entry of an existing key as it is.
MapSet_KeepFirst(c, key, faces, t) ==
    LET i == CacheIndex(c, key)
        e == [key |-> key, faces |-> faces, timestamp |-> t]
    IN IF i # 0 THEN c ELSE Append(c, e)

\* Map.set: an existing key keeps its place in the insertion order.
MapSet(c, key, faces, t) ==
    LET i == CacheIndex(c, key)
        e == [key |-> key, faces |-> faces, timestamp |-> t]
    IN IF i # 0 THEN [c EXCEPT ![i] = e] ELSE Append(c, e)

\* A variant without the clean-up.
SetCachedResult_NoEviction(c, key, faces, t) == MapSet(c, key, faces, t)

\* A variant whose clean-up deletes the last key of the Map, not the first.
SetCachedResult_EvictNewest(c, key, faces, t) ==
    LET s == MapSet(c, key, faces, t) IN
    IF Len(s) > cacheCapacity THEN SubSeq(s, 1, Len(s) - 1) ELSE s

\* setCachedResult: set, then delete the first key of the Map when over capacity.
SetCachedResult(c, key, faces, t) ==
    LET s == MapSet(c, key, faces, t) IN
    IF Len(s) > cacheCapacity THEN Tail(s) ELSE s

\* generateCacheKey for the canvas: floor(Date.now() / 100).
GenerateCacheKey(t) == t \div keyResolution

----------------------------------------------------------------------------
(* The VideoProcessor component *)

NoLoop == [live |-> FALSE, active |-> FALSE, loaded |-> FALSE]
NoStats == [frames |-> 0, elapsed |-> 0, faces |-> 0]

\* The early return of processFrame, on the values its closure captured.
Guarded(lp) == ~lp.active \/ processingRef \/ ~lp.loaded

\* A variant that wants a confidence above the threshold (> for >=).
AboveThreshold_Strict(confidence) ==
    confidence > privacySettings.detectionSensitivity

\* The test of faces.forEach: face.confidence >= privacySettings.detectionSensitivity.
AboveThreshold(confidence) ==
    confidence >= privacySettings.detectionSensitivity

\* faces.forEach: the faces at or above the confidence threshold.
Qualifying(faces) ==
    {i \in 1..Len(faces) : AboveThreshold(faces[i])}

\* The statistics block of processFrame, after frameCountRef.current++.
StatsUpdate(faces) ==
    LET n == frameCountRef + 1 IN
    IF now - lastTimeRef >= statsWindow
    THEN /\ emitted' = [frames |-> n, elapsed |-> now - lastTimeRef,
                        faces |-> Len(faces)]
         /\ frameCountRef' = 0
         /\ lastTimeRef' = now
    ELSE /\ frameCountRef' = n
         /\ UNCHANGED <<emitted, lastTimeRef>>

\* A variant without the finally block: a pass that throws leaves the guard set.
PassBody_NoFinally(faces, fault) ==
    /\ fault => Qualifying(faces) # {}
    /\ IF fault
       THEN /\ applied' = 0
            /\ UNCHANGED <<frameCountRef, lastTimeRef, emitted, processingRef>>
       ELSE /\ applied' = Cardinality(Qualifying(faces))
            /\ StatsUpdate(faces)
            /\ processingRef' = FALSE
    /\ lastEvent' = IF fault THEN "fail" ELSE "end"
    /\ UNCHANGED droppedFrames

\* processFrame from the return of detectFaces to the end of the finally block.
\* fault: applyAnonymization throws on the first face it is called for.
PassBody(faces, fault) ==
    /\ fault => Qualifying(faces) # {}
    /\ IF fault
       THEN /\ applied' = 0
            /\ UNCHANGED <<frameCountRef, lastTimeRef, emitted>>
       ELSE /\ applied' = Cardinality(Qualifying(faces))
            /\ StatsUpdate(faces)
    /\ processingRef' = FALSE
    /\ lastEvent' = IF fault THEN "fail" ELSE "end"
    /\ UNCHANGED droppedFrames

\* The props change and the component renders again; the effect on [isActive]
\* resets the refs when the new value is false.
SetActive(b) ==
    /\ b # isActive
    /\ isActive' = b
    /\ IF ~b
       THEN /\ processingRef' = FALSE
            /\ frameCountRef' = 0
            /\ lastTimeRef' = 0
       ELSE UNCHANGED <<processingRef, frameCountRef, lastTimeRef>>
    /\ activeSince' = IF b THEN now ELSE activeSince
    /\ UNCHANGED <<isModelLoaded, loops, passes, now, cache, droppedFrames, emitted,
                   applied, started, lastEvent, ticks, clientVars,
                   trackVars, effectVars, optimizerVars, streamVars,
                   sideVars>>

\* initialize() of the hook resolves: setIsModelLoaded(true).  (Not in the middle
\* of a caller's run of detectAndTrack calls, which is one uninterrupted burst.)
ModelLoaded ==
    /\ ~isModelLoaded
    /\ repeat.left = 0
    /\ isModelLoaded' = TRUE
    /\ UNCHANGED <<isActive, processingRef, frameCountRef, lastTimeRef, loops, passes,
                   now, cache, droppedFrames, emitted, applied, started, lastEvent,
                   ticks, clientVars, trackVars, effectVars, restVars>>

\* window.startFaceProcessing(video): processLoop closes over the isActive of this
\* render and over its processFrame, which closes over isActive and isModelLoaded.
StartProcessing(l) ==
    /\ ~loops[l].live
    /\ \A k \in Loops : k < l => loops[k].live
    /\ loops' = [loops EXCEPT ![l] = [live |-> TRUE, active |-> isActive,
                                      loaded |-> isModelLoaded]]
    /\ UNCHANGED <<isActive, isModelLoaded, processingRef, frameCountRef, lastTimeRef,
                   passes, now, cache, droppedFrames, emitted, applied, started,
                   lastEvent, ticks, clientVars, trackVars, effectVars, restVars>>

\* processLoop of a closure that captured isActive = false: nothing is rescheduled.
LoopExit(l) ==
    /\ loops[l].live
    /\ ~loops[l].active
    /\ loops' = [loops EXCEPT ![l] = NoLoop]
    /\ UNCHANGED <<isActive, isModelLoaded, processingRef, frameCountRef, lastTimeRef,
                   passes, now, cache, droppedFrames, emitted, applied, started,
                   lastEvent, ticks, clientVars, trackVars, effectVars, restVars>>

\* processLoop calls nothing (video not ready) or processFrame returns at once;
\* the callback is requested again.
FrameSkipped(l, ready) ==
    /\ loops[l].live
    /\ loops[l].active
    /\ ~ready \/ Guarded(loops[l])
    /\ UNCHANGED vars

\* processFrame passes the guard and drawImage throws: catch, finally.
FrameDrawFails(l) ==
    /\ loops[l].live
    /\ loops[l].active
    /\ ~Guarded(loops[l])
    /\ started < MaxStarted
    /\ started' = started + 1
    /\ processingRef' = FALSE
    /\ lastEvent' = "fail"
    /\ applied' = 0
    /\ UNCHANGED <<isActive, isModelLoaded, frameCountRef, lastTimeRef, loops, passes,
                   now, cache, droppedFrames, emitted, ticks, clientVars,
                   trackVars, effectVars, restVars>>

\* processFrame passes the guard and detectFaces finds the key in the cache: the
\* await resumes in a microtask, before any other callback or render.
FrameFromCache(l, fault) ==
    /\ loops[l].live
    /\ loops[l].active
    /\ ~Guarded(loops[l])
    /\ started < MaxStarted
    /\ LET r == GetCachedResult(cache, GenerateCacheKey(now), now) IN
       /\ r.hit
       /\ PassBody(r.faces, fault)
    /\ started' = started + 1
    /\ UNCHANGED <<isActive, isModelLoaded, loops, passes, now, cache, ticks, clientVars,
                   trackVars, effectVars, restVars>>

\* processFrame passes the guard and detectFaces misses the cache: the pass is
\* suspended on the detector call.
FrameStarts(l) ==
    /\ loops[l].live
    /\ loops[l].active
    /\ ~Guarded(loops[l])
    /\ started < MaxStarted
    /\ Len(passes) < MaxInFlight
    /\ ~GetCachedResult(cache, GenerateCacheKey(now), now).hit
    /\ processingRef' = TRUE
    /\ passes' = Append(passes, [key |-> GenerateCacheKey(now)])
    /\ started' = started + 1
    /\ lastEvent' = "start"
    /\ UNCHANGED <<isActive, isModelLoaded, frameCountRef, lastTimeRef, loops, now,
                   cache, droppedFrames, emitted, applied, ticks, clientVars,
                   trackVars, effectVars, restVars>>

\* The detector returns: detectFaces stores the result under the key it computed
\* before the call, and processFrame resumes.
DetectorDone(i, faces, fault) ==
    /\ i \in 1..Len(passes)
    /\ cache' = SetCachedResult(cache, passes[i].key, faces, now)
    /\ passes' = SubSeq(passes, 1, i - 1) \o SubSeq(passes, i + 1, Len(passes))
    /\ PassBody(faces, fault)
    /\ UNCHANGED <<isActive, isModelLoaded, loops, now, started, ticks, clientVars,
                   trackVars, effectVars, restVars>>

\* The detector call throws: the catch block of detectFaces returns no faces and
\* stores nothing, and processFrame resumes with them.
DetectorFails(i) ==
    /\ i \in 1..Len(passes)
    /\ passes' = SubSeq(passes, 1, i - 1) \o SubSeq(passes, i + 1, Len(passes))
    /\ PassBody(<< >>, FALSE)
    /\ UNCHANGED <<isActive, isModelLoaded, loops, now, cache, started, ticks,
                   clientVars, trackVars, effectVars, restVars>>

\* Time passes.
Tick(d) ==
    /\ ticks < MaxTicks
    /\ ticks' = ticks + 1
    /\ now' = now + d
    /\ UNCHANGED <<isActive, isModelLoaded, processingRef, frameCountRef, lastTimeRef,
                   loops, passes, cache, droppedFrames, emitted, applied, started,
                   lastEvent, clientVars, trackVars, effectVars, restVars>>

NoLookup == [key |-> 0, at |-> 0, result |-> Miss]

SchedInit ==
    /\ isActive = FALSE
    /\ isModelLoaded = FALSE
    /\ processingRef = FALSE
    /\ frameCountRef = 0
    /\ lastTimeRef = 0
    /\ loops = [l \in Loops |-> NoLoop]
    /\ passes = << >>
    /\ now = 0
    /\ droppedFrames = 0
    /\ emitted = NoStats
    /\ applied = 0
    /\ started = 0
    /\ lastEvent = "none"
    /\ ticks = 0
    /\ activeSince = 0

CacheInit ==
    /\ cache = << >>
    /\ log = << >>
    /\ lookup = NoLookup
    /\ ops = 0
    /\ pending = 0
    /\ dropped = {}

NoRepeat == [left |-> 0, faces |-> << >>]

TrackInit ==
    /\ trackedFaces = << >>
    /\ trackedResults = << >>
    /\ detected = << >>
    /\ detector = "skipped"
    /\ before = << >>
    /\ nextId = 0
    /\ calls = 0
    /\ repeat = NoRepeat
    /\ silent = << >>

\* No pass has been rendered.
EffectInit ==
    /\ surface = << >>
    /\ passFaces = << >>
    /\ effects = << >>
    /\ threw = FALSE
    /\ caller = "none"
    /\ processorFrames = 0

\* new FrameRateOptimizer(): targetFPS defaults to 30, no frame accepted yet.
OptimizerInit ==
    /\ targetFPS = defaultTargetFPS
    /\ lastFrameTime = 0
    /\ frames = << >>

\* useMediaStream of a StreamViewer that page.tsx mounted with its first
\* videoSource, before the effect of the first render has run.
StreamInit ==
    /\ videoSource = "none"
    /\ streamRef = 0
    /\ acquired = << >>
    /\ requests = 0
    /\ srcObject = 0
    /\ lastCall = "none"

\* StreamViewer as page.tsx mounts it, with isProcessing false, after the
\* effects of the first render: the loop effect returned at once.
ViewerInit ==
    /\ viewerProcessing = FALSE
    /\ viewerDirty = FALSE
    /\ viewerEffect = [live |-> FALSE, animationId |-> 0]
    /\ animationFrames = {}
    /\ viewerOutput = [drawn |-> 0, stats |-> 0, requested |-> 0]

\* new VideoStreamHandler()
RecorderInit ==
    /\ mediaRecorder = 0
    /\ recorders = << >>
    /\ recordedChunks = << >>
    /\ recording = "none"
    /\ blobs = << >>

\* No applyPixelateEffect call has been made by itself.
PixelateInit == pixelateCalls = << >>

\* The privacySettings page.tsx starts with.
defaultSettings ==
    [anonymizationMode |-> "blur", blurIntensity |-> defaultBlurIntensity,
     detectionSensitivity |-> detectionSensitivity]

\* The component as page.tsx mounts it: useFaceDetection without tracking options.
Init ==
    /\ SchedInit
    /\ CacheInit
    /\ TrackInit
    /\ EffectInit
    /\ OptimizerInit
    /\ StreamInit
    /\ ViewerInit
    /\ RecorderInit
    /\ PixelateInit
    /\ privacySettings = defaultSettings
    /\ options = [enableTracking |-> FALSE, trackingThreshold |-> 0,
                  maxTrackingFrames |-> 0]

----------------------------------------------------------------------------
(* A client of FaceDetectionCache: stores, lookups and clear() at chosen times *)

\* Lengths of the runs of consecutive stores of new keys the client makes.
FillSizes == {cacheCapacity - 1, cacheCapacity}

\* A key never stored before.
FreshKey == Len(log) + 1

\* Keys a store is tried with: a new one, the oldest and the newest in the Map.
StoreKeys ==
    {FreshKey} \cup (IF cache = << >> THEN {} ELSE {cache[1].key, cache[Len(cache)].key})

\* Keys a lookup is tried with: those, and the first key ever stored.
LookupKeys == StoreKeys \cup {1}

\* Waiting times: one millisecond, and one millisecond less than the timeout.
WaitSteps == {1, cacheTimeout - 1}

\* setCachedResult(key, faces) at the current time; every detector result is an
\* array of its own, here the one-face list tagged with the number of the store.
DoStore(key) ==
    LET faces == <<Len(log) + 1>> IN
    /\ cache' = SetCachedResult(cache, key, faces, now)
    /\ log' = Append(log, [key |-> key, faces |-> faces, at |-> now])

\* The client begins a run of n stores of new keys into a fresh cache.
Fill(n) ==
    /\ ops < MaxOps
    /\ pending = 0
    /\ cache = << >>
    /\ log = << >>
    /\ pending' = n
    /\ ops' = ops + 1
    /\ UNCHANGED <<schedVars, trackVars, effectVars, restVars, now, cache, log, lookup, dropped>>

\* The next store of the run.
FillStore ==
    /\ pending > 0
    /\ DoStore(FreshKey)
    /\ pending' = pending - 1
    /\ UNCHANGED <<schedVars, trackVars, effectVars, restVars, now, lookup, ops, dropped>>

\* setCachedResult(key, faces)
Store(key) ==
    /\ ops < MaxOps
    /\ pending = 0
    /\ DoStore(key)
    /\ ops' = ops + 1
    /\ UNCHANGED <<schedVars, trackVars, effectVars, restVars, now, lookup, pending, dropped>>

\* A variant of getCachedResult that deletes the entry it finds expired.
CacheAfterLookup_DropsExpired(c, key, t) ==
    LET i == CacheIndex(c, key) IN
    IF i # 0 /\ ~(t - c[i].timestamp < cacheTimeout)
    THEN SubSeq(c, 1, i - 1) \o SubSeq(c, i + 1, Len(c))
    ELSE c

\* The Map after getCachedResult(key) at time t: the method only calls
\* this.cache.get(key).
CacheAfterLookup(c, key, t) == c

\* getCachedResult(key)
Lookup(key) ==
    /\ ops < MaxOps
    /\ pending = 0
    /\ lookup' = [key |-> key, at |-> now, result |-> GetCachedResult(cache, key, now)]
    /\ cache' = CacheAfterLookup(cache, key, now)
    /\ ops' = ops + 1
    /\ UNCHANGED <<schedVars, trackVars, effectVars, restVars, now, log, pending, dropped>>

\* The keys whose entries are younger than the timeout at time t.
FreshKeys(c, t) == {c[i].key : i \in {j \in 1..Len(c) : t - c[j].timestamp < cacheTimeout}}

\* A variant of clear() that leaves the newest entry in the Map.
CacheClear_KeepNewest(c) == IF c = << >> THEN c ELSE <<c[Len(c)]>>

\* this.cache.clear()
CacheClear(c) == << >>

\* faceDetectionCache.clear() as the client sees it: the history starts again.
DoClear ==
    /\ cache' = CacheClear(cache)
    /\ log' = << >>
    /\ lookup' = NoLookup
    /\ dropped' = FreshKeys(cache, now)

\* clear()
Clear ==
    /\ ops < MaxOps
    /\ pending = 0
    /\ DoClear
    /\ ops' = ops + 1
    /\ UNCHANGED <<schedVars, trackVars, effectVars, restVars, now, pending>>

\* reinitialize() of the hook up to its await: setIsModelLoaded(false), clear(),
\* initialize() begins and resolves later (ModelLoaded).
Reinitialize ==
    /\ pending = 0
    /\ repeat.left = 0
    /\ isModelLoaded' = FALSE
    /\ DoClear
    /\ UNCHANGED <<isActive, processingRef, frameCountRef, lastTimeRef, loops, passes,
                   now, droppedFrames, emitted, applied, started, lastEvent, ticks,
                   ops, pending, trackVars, effectVars, restVars>>

\* Date.now() advances between two calls.
Wait(d) ==
    /\ ops < MaxOps
    /\ pending = 0
    /\ now' = now + d
    /\ ops' = ops + 1
    /\ UNCHANGED <<schedVars, trackVars, effectVars, restVars, cache, log, lookup, pending, dropped>>

CacheNext ==
    \/ \E n \in FillSizes : Fill(n)
    \/ FillStore
    \/ \E k \in StoreKeys : Store(k)
    \/ \E k \in LookupKeys : Lookup(k)
    \/ Clear
    \/ \E d \in WaitSteps : Wait(d)
    \/ Reinitialize
    \/ ModelLoaded

CacheSpec == Init /\ [][CacheNext]_vars

----------------------------------------------------------------------------
(* useFaceDetection.detectFaces and useAdvancedFaceDetection.detectAndTrack     *)
(*                                                                             *)
(* Here a DetectedFace is a record [x, y]: the top-left corner in hundredths   *)
(* of the frame.  A tracking id is a positive number, 0 stands for none.  The  *)
(* calls are sequential: each one is made on the detectAndTrack of the render  *)
(* that followed the previous call's setTrackedFaces.                          *)

defaultTrackingThreshold == 30
defaultMaxTrackingFrames == 30

\* A detector call that throws, and one that returns faces.
Throws == [throws |-> TRUE, faces |-> << >>]
Returns(faces) == [throws |-> FALSE, faces |-> faces]

Face(x, y) == [x |-> x, y |-> y]

\* What the detector may return.  (20,20) and (21,19) are one face in two
\* frames; (50,20) and (38,44) are at distance 30 of (20,20); (35,20) is at
\* distance 15 of both (20,20) and (50,20), (40,20) is nearer to (50,20).
DetectorFaces ==
    { << >>,
      <<Face(20, 20)>>, <<Face(21, 19)>>, <<Face(50, 20)>>, <<Face(38, 44)>>,
      <<Face(35, 20)>>, <<Face(40, 20)>>,
      <<Face(20, 20), Face(50, 20)>>, <<Face(20, 20), Face(21, 19)>> }

DetectorOutcomes == {Returns(f) : f \in DetectorFaces} \cup {Throws}

\* The options the hook is called with; 0 stands for a property left out.
TrackingOptions ==
    { [enableTracking |-> FALSE, trackingThreshold |-> 0, maxTrackingFrames |-> 0],
      [enableTracking |-> TRUE, trackingThreshold |-> 0, maxTrackingFrames |-> 0],
      [enableTracking |-> TRUE, trackingThreshold |-> 16, maxTrackingFrames |-> 2] }

\* options.trackingThreshold || 0.3
Threshold(o) ==
    IF o.trackingThreshold # 0 THEN o.trackingThreshold ELSE defaultTrackingThreshold

\* options.maxTrackingFrames || 30
MaxFrames(o) ==
    IF o.maxTrackingFrames # 0 THEN o.maxTrackingFrames ELSE defaultMaxTrackingFrames

\* A variant without the early return for a model that is not loaded.
DetectFaces_NoLoadedCheck(loaded, c, t, outcome) ==
    LET key == GenerateCacheKey(t)
        r == GetCachedResult(c, key, t)
    IN IF r.hit
       THEN [faces |-> r.faces, cache |-> c, did |-> "cached"]
       ELSE IF outcome.throws
       THEN [faces |-> << >>, cache |-> c, did |-> "threw"]
       ELSE [faces |-> outcome.faces,
             cache |-> SetCachedResult(c, key, outcome.faces, t), did |-> "returned"]

\* A variant that does not look in the cache before it calls the detector.
DetectFaces_NoCache(loaded, c, t, outcome) ==
    IF ~loaded
    THEN [faces |-> << >>, cache |-> c, did |-> "skipped"]
    ELSE IF outcome.throws
    THEN [faces |-> << >>, cache |-> c, did |-> "threw"]
    ELSE [faces |-> outcome.faces,
          cache |-> SetCachedResult(c, GenerateCacheKey(t), outcome.faces, t),
          did |-> "returned"]

\* detectFaces of a render whose isModelLoaded is loaded, called at time t, when
\* the detector would return or throw outcome: the faces it resolves to, the
\* cache it leaves, and what it did.
DetectFaces(loaded, c, t, outcome) ==
    IF ~loaded
    THEN [faces |-> << >>, cache |-> c, did |-> "skipped"]
    ELSE LET key == GenerateCacheKey(t)
             r == GetCachedResult(c, key, t)
         IN IF r.hit
            THEN [faces |-> r.faces, cache |-> c, did |-> "cached"]
            ELSE IF outcome.throws
            THEN [faces |-> << >>, cache |-> c, did |-> "threw"]
            ELSE [faces |-> outcome.faces,
                  cache |-> SetCachedResult(c, key, outcome.faces, t),
                  did |-> "returned"]

\* The square of the distance of line 160.  Math.sqrt is increasing, so that
\* distance < threshold is compared on the squares.
Distance2(face, tracked) ==
    (face.x - tracked.x) * (face.x - tracked.x)
        + (face.y - tracked.y) * (face.y - tracked.y)

NoMatch == [id |-> 0, distance |-> 0]

\* A variant of the loop that lets a later identity at the same distance win.
RECURSIVE FindClosest_LastWins(_, _, _, _, _)
FindClosest_LastWins(m, face, threshold, i, bestMatch) ==
    IF i > Len(m)
    THEN bestMatch
    ELSE LET distance == Distance2(face, m[i]) IN
         FindClosest_LastWins(m, face, threshold, i + 1,
             IF /\ distance < threshold * threshold
                /\ (bestMatch.id = 0 \/ distance <= bestMatch.distance)
             THEN [id |-> m[i].trackingId, distance |-> distance]
             ELSE bestMatch)

\* The loop over newTrackedFaces.entries() from entry i on.
RECURSIVE FindClosest(_, _, _, _, _)
FindClosest(m, face, threshold, i, bestMatch) ==
    IF i > Len(m)
    THEN bestMatch
    ELSE LET distance == Distance2(face, m[i]) IN
         FindClosest(m, face, threshold, i + 1,
             IF /\ distance < threshold * threshold
                /\ (bestMatch.id = 0 \/ distance < bestMatch.distance)
             THEN [id |-> m[i].trackingId, distance |-> distance]
             ELSE bestMatch)

TrackedIndex(m, id) == CHOOSE i \in 1..Len(m) : m[i].trackingId = id

TrackedIds(m) == {m[i].trackingId : i \in 1..Len(m)}

\* A variant of the update that keeps the identity's old geometry.
UpdateTracked_KeepGeometry(tracked, face, id) ==
    [trackingId |-> id, x |-> tracked.x, y |-> tracked.y,
     frameCount |-> tracked.frameCount + 1]

\* { ...face, trackingId: bestMatch.id, frameCount: tracked.frameCount + 1 }
UpdateTracked(tracked, face, id) ==
    [trackingId |-> id, x |-> face.x, y |-> face.y,
     frameCount |-> tracked.frameCount + 1]

\* The body of faces.forEach for one face; st is newTrackedFaces, trackedResults
\* and the number of ids generated.
TrackFace(st, face, threshold) ==
    LET bestMatch == FindClosest(st.tracked, face, threshold, 1, NoMatch) IN
    IF bestMatch.id # 0
    THEN LET i == TrackedIndex(st.tracked, bestMatch.id) IN
         [tracked |-> [st.tracked EXCEPT
                          ![i] = UpdateTracked(st.tracked[i], face, bestMatch.id)],
          results |-> Append(st.results,
                             [x |-> face.x, y |-> face.y, trackingId |-> bestMatch.id]),
          nextId |-> st.nextId]
    ELSE LET newId == st.nextId + 1 IN
         [tracked |-> Append(st.tracked,
                             [trackingId |-> newId, x |-> face.x, y |-> face.y,
                              frameCount |-> 1]),
          results |-> Append(st.results,
                             [x |-> face.x, y |-> face.y, trackingId |-> newId]),
          nextId |-> newId]

\* A variant that adds 1 to the age of every identity before the faces are
\* matched.
RECURSIVE TrackFaces_AgeAll(_, _, _, _, _)
TrackFaces_AgeAll(tracked, ids, faces, threshold, n) ==
    IF n = 0
    THEN [tracked |-> [j \in 1..Len(tracked) |->
                          [tracked[j] EXCEPT !.frameCount = @ + 1]],
          results |-> << >>, nextId |-> ids]
    ELSE TrackFace(TrackFaces_AgeAll(tracked, ids, faces, threshold, n - 1),
                   faces[n], threshold)

\* faces.forEach over the first n faces.
RECURSIVE TrackFaces(_, _, _, _, _)
TrackFaces(tracked, ids, faces, threshold, n) ==
    IF n = 0
    THEN [tracked |-> tracked, results |-> << >>, nextId |-> ids]
    ELSE TrackFace(TrackFaces(tracked, ids, faces, threshold, n - 1), faces[n],
                   threshold)

\* Remove old tracked faces.
RemoveOld(m, maxFrames) ==
    SelectSeq(m, LAMBDA t : ~(t.frameCount > maxFrames))

\* The faces as they are returned when tracking is not enabled.
Untracked(faces) ==
    [i \in 1..Len(faces) |-> [x |-> faces[i].x, y |-> faces[i].y, trackingId |-> 0]]

\* detectAndTrack called d ms after the previous call, through the callback of
\* a render whose trackedFaces is snapshot.
TrackFrom(snapshot, d, outcome) ==
    LET t == now + d
        r == DetectFaces(isModelLoaded, cache, t, outcome)
    IN /\ now' = t
       /\ cache' = r.cache
       /\ detected' = r.faces
       /\ detector' = r.did
       /\ before' = snapshot
       /\ IF ~options.enableTracking
          THEN /\ trackedResults' = Untracked(r.faces)
               /\ UNCHANGED <<trackedFaces, nextId, silent>>
          ELSE LET st == TrackFaces(snapshot, nextId, r.faces,
                                    Threshold(options), Len(r.faces))
                   kept == RemoveOld(st.tracked, MaxFrames(options))
                   claimed == {st.results[i].trackingId : i \in 1..Len(st.results)}
               IN /\ trackedFaces' = kept
                  /\ trackedResults' = st.results
                  /\ nextId' = st.nextId
                  /\ silent' = [id \in TrackedIds(kept) |->
                                   IF id \in claimed THEN 0
                                   ELSE IF id \in DOMAIN silent THEN silent[id] + 1
                                   ELSE 1]
       /\ UNCHANGED <<isActive, isModelLoaded, processingRef, frameCountRef,
                      lastTimeRef, loops, passes, droppedFrames, emitted, applied,
                      started, lastEvent, ticks, clientVars, options, effectVars, restVars>>

\* The call through the callback of the current render.
Track(d, outcome) == TrackFrom(trackedFaces, d, outcome)

\* Times between two calls: none, and one key bucket.
CallSteps == {0, keyResolution}

\* One detectAndTrack call.
DetectAndTrack(d, outcome) ==
    /\ calls < MaxCalls
    /\ repeat.left = 0
    /\ calls' = calls + 1
    /\ Track(d, outcome)
    /\ UNCHANGED repeat

\* Lengths of the runs of calls, one per key bucket, in which the detector keeps
\* returning the same faces; and those faces.
ReplaySizes == {defaultMaxTrackingFrames + 1}
ReplayFaces == {<< >>, <<Face(20, 20)>>}

\* The caller begins such a run.
Replay(n, faces) ==
    /\ calls < MaxCalls
    /\ repeat.left = 0
    /\ calls' = calls + 1
    /\ repeat' = [left |-> n, faces |-> faces]
    /\ UNCHANGED <<schedVars, clientVars, effectVars, restVars, now, cache, options,
                   trackedFaces, trackedResults, detected, detector, before, nextId,
                   silent>>

\* The next call of the run.
ReplayCall ==
    /\ repeat.left > 0
    /\ Track(keyResolution, Returns(repeat.faces))
    /\ repeat' = [repeat EXCEPT !.left = repeat.left - 1]
    /\ UNCHANGED calls

TrackSpecInit ==
    /\ SchedInit
    /\ CacheInit
    /\ TrackInit
    /\ EffectInit
    /\ OptimizerInit
    /\ StreamInit
    /\ ViewerInit
    /\ RecorderInit
    /\ PixelateInit
    /\ privacySettings = defaultSettings
    /\ options \in TrackingOptions

TrackNext ==
    \/ ModelLoaded
    \/ Reinitialize
    \/ \E d \in CallSteps, o \in DetectorOutcomes : DetectAndTrack(d, o)
    \/ \E n \in ReplaySizes, f \in ReplayFaces : Replay(n, f)
    \/ ReplayCall

TrackSpec == TrackSpecInit /\ [][TrackNext]_vars

\* One more call through the callback the last call was made through: issued
\* before that call's setTrackedFaces has rendered the component again, or by a
\* caller that kept the callback.  Its closure holds the trackedFaces the last
\* call started from.
DetectAndTrackAgain(d, outcome) ==
    /\ calls < MaxCalls
    /\ calls > 0
    /\ repeat.left = 0
    /\ calls' = calls + 1
    /\ TrackFrom(before, d, outcome)
    /\ UNCHANGED repeat

\* Calls through the callback of the current render and through the one before.
OverlapNext ==
    \/ ModelLoaded
    \/ \E d \in CallSteps, o \in DetectorOutcomes : DetectAndTrack(d, o)
    \/ \E d \in CallSteps, o \in DetectorOutcomes : DetectAndTrackAgain(d, o)

\* The Maps of live identities the hook may hold when the calls begin: none,
\* or the one identity that a call which detected a face at (0.20, 0.20) made.
LiveSets ==
    {<< >>, <<[trackingId |-> 1, x |-> 20, y |-> 20, frameCount |-> 1]>>}

OverlapSpecInit ==
    /\ SchedInit
    /\ CacheInit
    /\ EffectInit
    /\ OptimizerInit
    /\ StreamInit
    /\ ViewerInit
    /\ RecorderInit
    /\ PixelateInit
    /\ privacySettings = defaultSettings
    /\ options \in TrackingOptions
    /\ trackedFaces \in LiveSets
    /\ options.enableTracking \/ trackedFaces = << >>
    /\ nextId = Len(trackedFaces)
    /\ silent = [id \in TrackedIds(trackedFaces) |-> 0]
    /\ trackedResults = << >>
    /\ detected = << >>
    /\ detector = "skipped"
    /\ before = << >>
    /\ calls = 0
    /\ repeat = NoRepeat

OverlapSpec == OverlapSpecInit /\ [][OverlapNext]_vars

----------------------------------------------------------------------------
(* The scheduler's next-state relation *)

Callback(l) ==
    \/ LoopExit(l)
    \/ \E ready \in BOOLEAN : FrameSkipped(l, ready)
    \/ FrameDrawFails(l)
    \/ \E fault \in BOOLEAN : FrameFromCache(l, fault)
    \/ FrameStarts(l)

DetectorReturns ==
    \/ \E i \in 1..MaxInFlight, f \in DetectorResults, fault \in BOOLEAN :
          DetectorDone(i, f, fault)
    \/ \E i \in 1..MaxInFlight : DetectorFails(i)

Next ==
    \/ \E b \in BOOLEAN : SetActive(b)
    \/ ModelLoaded
    \/ \E l \in Loops : StartProcessing(l)
    \/ \E l \in Loops : Callback(l)
    \/ DetectorReturns
    \/ \E d \in TickSteps : Tick(d)

Spec == Init /\ [][Next]_vars

\* The host fires every pending animation-frame callback: each loop's callback
\* is weakly fair.  Nothing is assumed about when a detector call returns.
FairSpec ==
    /\ Init
    /\ [][Next]_vars
    /\ \A l \in Loops : WF_vars(Callback(l))

----------------------------------------------------------------------------
(* The effects: applyAnonymization of the component (src/unnamed/part_002)  *)
(* and the effect methods of the VideoProcessor class (videoUtils.ts)       *)
(*                                                                          *)
(* Here a DetectedFace is a record [x, y, width, height, confidence] in     *)
(* hundredths, and a region of the canvas is a record [x, y, width, height] *)
(* in hundredths of a pixel: face.x * canvas.width is a whole number of     *)
(* pixels for some faces only.  Arithmetic is exact.  The canvas is a flat  *)
(* array of channel values, four per pixel, as ImageData.data is; such an   *)
(* array is a sequence, and its element of index i is the (i + 1)-th.       *)

\* video.videoWidth and video.videoHeight, which the canvas takes.
videoWidth == 20
videoHeight == 20

minPixelSize == 8
minBlurRadius == 2
fontSize == 12

Max(a, b) == IF a >= b THEN a ELSE b
Min(a, b) == IF a <= b THEN a ELSE b

FaceAt(x, y, width, height, confidence) ==
    [x |-> x, y |-> y, width |-> width, height |-> height,
     confidence |-> confidence]

\* What the detector may return to the component (simulateDetection: x and y
\* below 0.7, width in [0.08, 0.20), height in [0.10, 0.25), confidence at
\* least 0.7).  On this canvas (0.5, 0.5, 0.1, 0.1) is 2 x 2 pixels at (10, 10),
\* (0.10, 0.10, 0.15, 0.20) is 3 x 4 pixels and a width of 0.18 is 3.6 pixels.
DetectedFaces ==
    { << >>,
      <<FaceAt(50, 50, 10, 10, 90)>>,
      <<FaceAt(25, 25, 18, 18, 95)>>,
      <<FaceAt(10, 10, 15, 20, 70)>>,
      <<FaceAt(10, 10, 15, 20, 90), FaceAt(50, 50, 10, 10, 75),
        FaceAt(60, 20, 15, 25, 98)>> }

\* What a caller may hand to VideoProcessor.processFrame: regions of 16 x 16
\* and 12 x 12 pixels, the whole frame, a region that extends 10 pixels past
\* the right and bottom edges, regions of no width, a region 3.6 pixels wide.
RegionFaces ==
    { <<FaceAt(10, 10, 80, 80, 90)>>,
      <<FaceAt(20, 20, 60, 60, 90)>>,
      <<FaceAt(0, 0, 100, 100, 90)>>,
      <<FaceAt(50, 50, 100, 100, 90)>>,
      <<FaceAt(25, 25, 0, 50, 90)>>,
      <<FaceAt(25, 25, 18, 18, 90)>>,
      <<FaceAt(25, 25, 0, 50, 90), FaceAt(50, 50, 10, 10, 90)>> }

\* The settings of the control panel: each mode, an intensity below and one
\* above the least pixel size, the default sensitivity and the greatest.
EffectSettings ==
    [anonymizationMode : {"blur", "pixelate", "black-box"},
     blurIntensity : {5, 12},
     detectionSensitivity : {detectionSensitivity, 95}]

\* The pixel and the channel of the k-th element of the canvas array, and the
\* place in it of the red channel of a pixel.
PixelX(k) == ((k - 1) \div 4) % videoWidth
PixelY(k) == ((k - 1) \div 4) \div videoWidth
Channel(k) == (k - 1) % 4
PixelIndex(x, y) == 4 * (y * videoWidth + x) + 1
OnCanvas(x, y) == x \in 0..(videoWidth - 1) /\ y \in 0..(videoHeight - 1)

\* ctx.drawImage(video, 0, 0, canvas.width, canvas.height): the frame, opaque,
\* no two pixels of one colour and no two channels of one value.
Frame ==
    [k \in 1..(4 * videoWidth * videoHeight) |->
        CASE Channel(k) = 0 -> 10 * PixelX(k) + 1
          [] Channel(k) = 1 -> 10 * PixelY(k) + 2
          [] Channel(k) = 2 -> 200 + PixelX(k) + PixelY(k)
          [] OTHER -> 255]

\* The faceBox of a face.
FaceBox(face) ==
    [x |-> face.x * videoWidth, y |-> face.y * videoHeight,
     width |-> face.width * videoWidth, height |-> face.height * videoHeight]

\* The conversion of an argument to a long: the fraction is dropped.
Trunc(v) == IF v >= 0 THEN v \div 100 ELSE -((-v) \div 100)

\* Whether pixel column or row k meets the interval from lo to hi.
Overlaps(k, lo, hi) == k * 100 < hi /\ (k + 1) * 100 > lo

\* ctx.getImageData(x, y, width, height): throws IndexSizeError when the width
\* or the height is 0 as a long; pixels off the canvas read as transparent black.
GetImageData(s, box) ==
    LET sx == Trunc(box.x)
        sy == Trunc(box.y)
        sw == Trunc(box.width)
        sh == Trunc(box.height)
    IN IF sw = 0 \/ sh = 0
       THEN [threw |-> TRUE, width |-> 0, height |-> 0, data |-> << >>]
       ELSE [threw |-> FALSE, width |-> sw, height |-> sh,
             data |-> [k \in 1..(4 * sw * sh) |->
                          LET x == sx + (((k - 1) \div 4) % sw)
                              y == sy + (((k - 1) \div 4) \div sw)
                          IN IF OnCanvas(x, y)
                             THEN s[PixelIndex(x, y) + ((k - 1) % 4)]
                             ELSE 0]]

\* ctx.putImageData(imageData, x, y): only pixels of the canvas are written.
PutImageData(s, img, box) ==
    LET dx == Trunc(box.x)
        dy == Trunc(box.y)
    IN [k \in DOMAIN s |->
           LET col == PixelX(k) - dx
               row == PixelY(k) - dy
           IN IF col \in 0..(img.width - 1) /\ row \in 0..(img.height - 1)
              THEN img.data[4 * (row * img.width + col) + Channel(k) + 1]
              ELSE s[k]]

\* (row * width + col) * 4 for a row, a column and a width in hundredths, times
\* 10000.
Offset(row, col, width) == 4 * row * width + 400 * col

\* data[i + c] for i = n / 10000: a channel value when i is a whole number and
\* the index is within the array; undefined otherwise, which is stored as 0.
DataRead(data, n, c) ==
    IF n % 10000 = 0 /\ (n \div 10000 + c + 1) \in DOMAIN data
    THEN data[n \div 10000 + c + 1]
    ELSE 0

\* The dx loop for row dy of the block b = [px, py, size, width, height, rgb]:
\* data[idx] = r, data[idx + 1] = g, data[idx + 2] = b for idx = i, i + 4, ...,
\* once per dx, where i is the idx of dx = 0.  When i is not a whole number
\* no idx is an index and nothing is stored; nothing is stored past the end
\* of the array either.
FillRow(data, b, dy) ==
    LET n == Offset((b.py + dy) * 100, b.px * 100, b.width)
        count == Cardinality({dx \in 0..(b.size - 1) : (b.px + dx) * 100 < b.width})
        first == n \div 10000 + 1
        last == Min(first + 4 * count - 1, Len(data))
    IN IF n % 10000 # 0 \/ first > Len(data)
       THEN data
       ELSE SubSeq(data, 1, first - 1)
            \o [j \in 1..(last - first + 1) |->
                   IF (j - 1) % 4 = 3 THEN data[first + j - 1]
                   ELSE b.rgb[((j - 1) % 4) + 1]]
            \o SubSeq(data, last + 1, Len(data))

\* The dy loop of the block.
RECURSIVE FillBlock(_, _, _)
FillBlock(data, b, dy) ==
    IF dy < b.size /\ (b.py + dy) * 100 < b.height
    THEN FillBlock(FillRow(data, b, dy), b, dy + 1)
    ELSE data

\* The px loop: the block at (px, py) is filled with the channels read at
\* (min(px, width - 1), min(py, height - 1)).
RECURSIVE BlockRow(_, _, _, _)
BlockRow(data, g, py, px) ==
    IF px * 100 < g.width
    THEN LET n == Offset(Min(py * 100, g.height - 100),
                         Min(px * 100, g.width - 100), g.width)
             b == [px |-> px, py |-> py, size |-> g.size, width |-> g.width,
                   height |-> g.height,
                   rgb |-> <<DataRead(data, n, 0), DataRead(data, n, 1),
                             DataRead(data, n, 2)>>]
         IN BlockRow(FillBlock(data, b, 0), g, py, px + g.size)
    ELSE data

\* The py loop.
RECURSIVE Blocks(_, _, _)
Blocks(data, g, py) ==
    IF py * 100 < g.height
    THEN Blocks(BlockRow(data, g, py, 0), g, py + g.size)
    ELSE data

\* applyPixelateEffect(x, y, width, height, pixelSize): the canvas it leaves
\* and whether it threw.
Pixelate(s, box, pixelSize) ==
    LET img == GetImageData(s, box)
        g == [size |-> pixelSize, width |-> box.width, height |-> box.height]
    IN IF img.threw
       THEN [surface |-> s, threw |-> TRUE]
       ELSE [surface |-> PutImageData(s, [img EXCEPT !.data = Blocks(@, g, 0)],
                                      box),
             threw |-> FALSE]

\* applyBlurEffect: drawImage of the canvas onto itself under a blur filter.
\* Nothing is drawn for a source of no width or no height; the source is
\* clipped to the canvas; the filter spreads what is drawn by its radius,
\* max(2, intensity / 2) pixels.  -1 stands for a blend of the colours around.
Blur(s, box, intensity) ==
    LET radius == Max(minBlurRadius * 100, 50 * intensity)
        left == Max(box.x, 0)
        right == Min(box.x + box.width, videoWidth * 100)
        top == Max(box.y, 0)
        bottom == Min(box.y + box.height, videoHeight * 100)
    IN IF box.width = 0 \/ box.height = 0 \/ left >= right \/ top >= bottom
       THEN s
       ELSE [k \in DOMAIN s |->
                IF /\ Channel(k) # 3
                   /\ Overlaps(PixelX(k), left - radius, right + radius)
                   /\ Overlaps(PixelY(k), top - radius, bottom + radius)
                THEN -1
                ELSE s[k]]

\* fillRect in rgba(0, 0, 0, 0.9), then fillText('PRIVATE') in
\* rgba(255, 255, 255, 0.7), centred on the middle of the box, in a font of
\* size font (hundredths of a pixel), on the alphabetic baseline or on the
\* middle one.  The seven capitals are taken to fill a box four sizes wide and
\* one size high.
BlackBox(s, box, font, middle) ==
    LET cx == (2 * box.x + box.width) \div 2
        cy == (2 * box.y + box.height) \div 2
        top == IF middle THEN cy - font \div 2 ELSE cy - font
        filled == [k \in DOMAIN s |->
                      IF /\ Channel(k) # 3
                         /\ box.width # 0 /\ box.height # 0
                         /\ Overlaps(PixelX(k), box.x, box.x + box.width)
                         /\ Overlaps(PixelY(k), box.y, box.y + box.height)
                      THEN s[k] \div 10
                      ELSE s[k]]
    IN [k \in DOMAIN s |->
           IF /\ Channel(k) # 3
              /\ Overlaps(PixelX(k), cx - 2 * font, cx + 2 * font)
              /\ Overlaps(PixelY(k), top, top + font)
           THEN (7 * 255 + 3 * filled[k]) \div 10
           ELSE filled[k]]

\* applyAnonymization of the component.
ApplyAnonymization(s, box, mode, intensity) ==
    CASE mode = "blur" -> [surface |-> Blur(s, box, intensity), threw |-> FALSE]
      [] mode = "pixelate" -> Pixelate(s, box, Max(minPixelSize, intensity))
      [] OTHER -> [surface |-> BlackBox(s, box, fontSize * 100, FALSE),
                   threw |-> FALSE]

\* The switch of VideoProcessor.processFrame: applyBlurEffect,
\* applyPixelateEffect or applyBlackBoxEffect, whose font is a sixth of the
\* lesser side of the box.
ApplyEffect(s, box, mode, intensity) ==
    CASE mode = "blur" -> [surface |-> Blur(s, box, intensity), threw |-> FALSE]
      [] mode = "pixelate" -> Pixelate(s, box, Max(minPixelSize, intensity))
      [] OTHER -> [surface |-> BlackBox(s, box, Min(box.width, box.height) \div 6,
                                        TRUE),
                   threw |-> FALSE]

NoEffects(s) == [surface |-> s, effects |-> << >>, threw |-> FALSE]

\* faces.forEach of the component's processFrame, from face i on: the effect
\* for each face at or above the threshold, until a call throws.
RECURSIVE RenderFaces(_, _, _)
RenderFaces(st, faces, i) ==
    IF i > Len(faces) \/ st.threw
    THEN st
    ELSE IF AboveThreshold(faces[i].confidence)
    THEN LET r == ApplyAnonymization(st.surface, FaceBox(faces[i]),
                                     privacySettings.anonymizationMode,
                                     privacySettings.blurIntensity)
         IN RenderFaces([surface |-> r.surface, effects |-> Append(st.effects, i),
                         threw |-> r.threw], faces, i + 1)
    ELSE RenderFaces(st, faces, i + 1)

\* faces.forEach of VideoProcessor.processFrame: the effect for every face.
RECURSIVE ProcessFaces(_, _, _)
ProcessFaces(st, faces, i) ==
    IF i > Len(faces) \/ st.threw
    THEN st
    ELSE LET r == ApplyEffect(st.surface, FaceBox(faces[i]),
                              privacySettings.anonymizationMode,
                              privacySettings.blurIntensity)
         IN ProcessFaces([surface |-> r.surface, effects |-> Append(st.effects, i),
                          threw |-> r.threw], faces, i + 1)

\* A pass of the component's processFrame whose detector call, if detectFaces
\* makes one, returns faces: the frame is drawn, detectFaces resolves, the
\* effects are applied, then the statistics, the catch and the finally block.
RenderPass(faces) ==
    /\ started < MaxStarted
    /\ isActive /\ ~processingRef /\ isModelLoaded
    /\ LET d == DetectFaces(isModelLoaded, cache, now, Returns(faces))
           r == RenderFaces(NoEffects(Frame), d.faces, 1)
       IN /\ cache' = d.cache
          /\ passFaces' = d.faces
          /\ surface' = r.surface
          /\ effects' = r.effects
          /\ threw' = r.threw
          /\ applied' = IF r.threw THEN Len(r.effects) - 1 ELSE Len(r.effects)
          /\ IF r.threw
             THEN UNCHANGED <<frameCountRef, lastTimeRef, emitted>>
             ELSE StatsUpdate(d.faces)
          /\ lastEvent' = IF r.threw THEN "fail" ELSE "end"
    /\ processingRef' = FALSE
    /\ caller' = "component"
    /\ started' = started + 1
    /\ UNCHANGED <<isActive, isModelLoaded, loops, passes, now, droppedFrames,
                   ticks, clientVars, trackVars, privacySettings,
                   processorFrames, restVars>>

\* VideoProcessor.processFrame(videoElement, faces, options) with the settings
\* as options: the frame is drawn, the effects are applied, and updateStats
\* counts the frame unless an effect threw.
ProcessFrame(faces) ==
    /\ started < MaxStarted
    /\ LET r == ProcessFaces(NoEffects(Frame), faces, 1)
       IN /\ passFaces' = faces
          /\ surface' = r.surface
          /\ effects' = r.effects
          /\ threw' = r.threw
          /\ processorFrames' = IF r.threw THEN processorFrames
                                ELSE processorFrames + 1
    /\ caller' = "processor"
    /\ started' = started + 1
    /\ UNCHANGED <<isActive, isModelLoaded, processingRef, frameCountRef,
                   lastTimeRef, loops, passes, now, cache, droppedFrames, emitted,
                   applied, lastEvent, ticks, clientVars, trackVars,
                   privacySettings, restVars>>

\* The component once it is active and its model is loaded, under some
\* settings of the control panel, and a VideoProcessor on a canvas of its own.
EffectSpecInit ==
    /\ isActive = TRUE
    /\ isModelLoaded = TRUE
    /\ processingRef = FALSE
    /\ frameCountRef = 0
    /\ lastTimeRef = 0
    /\ loops = [l \in Loops |-> NoLoop]
    /\ passes = << >>
    /\ now = 0
    /\ droppedFrames = 0
    /\ emitted = NoStats
    /\ applied = 0
    /\ started = 0
    /\ lastEvent = "none"
    /\ ticks = 0
    /\ activeSince = 0
    /\ CacheInit
    /\ TrackInit
    /\ EffectInit
    /\ OptimizerInit
    /\ StreamInit
    /\ ViewerInit
    /\ RecorderInit
    /\ PixelateInit
    /\ options = [enableTracking |-> FALSE, trackingThreshold |-> 0,
                  maxTrackingFrames |-> 0]
    /\ privacySettings \in EffectSettings

EffectNext ==
    \/ \E f \in DetectedFaces : RenderPass(f)
    \/ \E f \in RegionFaces : ProcessFrame(f)

EffectSpec == EffectSpecInit /\ [][EffectNext]_vars

----------------------------------------------------------------------------
(* FrameRateOptimizer (videoUtils.ts) *)

\* currentTime - this.lastFrameTime >= this.frameInterval, where frameInterval
\* is 1000 / fps and fps >= 0 (1000 / 0 is Infinity: never reached).
IntervalElapsed(elapsed, fps) == elapsed * fps >= 1000

\* A variant that wants more than the interval to have elapsed.
ShouldProcessFrame_Strict(last, fps, currentTime) ==
    IF (currentTime - last) * fps > 1000
    THEN [result |-> TRUE, lastFrameTime |-> currentTime]
    ELSE [result |-> FALSE, lastFrameTime |-> last]

\* shouldProcessFrame(currentTime) of an optimizer whose lastFrameTime is last
\* and whose targetFPS is fps: what it returns and the lastFrameTime it leaves.
ShouldProcessFrame(last, fps, currentTime) ==
    IF IntervalElapsed(currentTime - last, fps)
    THEN [result |-> TRUE, lastFrameTime |-> currentTime]
    ELSE [result |-> FALSE, lastFrameTime |-> last]

\* Target rates: one with a whole interval (100 ms), and the default.
TargetRates == {10, defaultTargetFPS}

\* Times between two shouldProcessFrame calls.
FrameSteps == {0, 16, 33, 34, 100}

\* The time of the last shouldProcessFrame call.
FrameClock == IF frames = << >> THEN 0 ELSE frames[Len(frames)].time

\* The caller asks about a frame, at a time not before that of its last call.
FrameAsked(d) ==
    /\ Len(frames) < MaxAsked
    /\ LET t == FrameClock + d
           r == ShouldProcessFrame(lastFrameTime, targetFPS, t)
       IN /\ lastFrameTime' = r.lastFrameTime
          /\ frames' = Append(frames, [time |-> t, fps |-> targetFPS,
                                       result |-> r.result])
    /\ UNCHANGED <<schedVars, now, cache, clientVars, trackVars, effectVars,
                   sideVars, activeSince, streamVars, targetFPS>>

\* setTargetFPS(fps)
SetTargetFPS(fps) ==
    /\ fps # targetFPS
    /\ targetFPS' = fps
    /\ UNCHANGED <<schedVars, now, cache, clientVars, trackVars, effectVars,
                   sideVars, activeSince, streamVars, lastFrameTime, frames>>

\* An optimizer constructed with some target rate.
OptimizerSpecInit ==
    /\ SchedInit
    /\ CacheInit
    /\ TrackInit
    /\ EffectInit
    /\ StreamInit
    /\ ViewerInit
    /\ RecorderInit
    /\ PixelateInit
    /\ privacySettings = defaultSettings
    /\ options = [enableTracking |-> FALSE, trackingThreshold |-> 0,
                  maxTrackingFrames |-> 0]
    /\ targetFPS \in TargetRates
    /\ lastFrameTime = 0
    /\ frames = << >>

OptimizerNext ==
    \/ \E d \in FrameSteps : FrameAsked(d)
    \/ \E fps \in TargetRates : SetTargetFPS(fps)

OptimizerSpec == OptimizerSpecInit /\ [][OptimizerNext]_vars

----------------------------------------------------------------------------
(* useMediaStream and the video source effect of StreamViewer *)
(*                                                                      *)
(* A MediaStream is its place in acquired; getUserMedia is supported,    *)
(* and a webcam stream has one track, the video track.                   *)

\* streamRef.current.getTracks().forEach(track => track.stop()), if there is a
\* current stream.
StopTracks(streams, ref) ==
    IF ref # 0 THEN [streams EXCEPT ![ref] = FALSE] ELSE streams

\* startStream up to `await getUserMedia`: the tracks of the current stream are
\* stopped and the reference to it is kept.
StartStream ==
    /\ acquired' = StopTracks(acquired, streamRef)
    /\ requests' = requests + 1
    /\ lastCall' = "startStream"
    /\ UNCHANGED streamRef

\* stopStream: nothing when there is no current stream.
StopStream ==
    /\ acquired' = StopTracks(acquired, streamRef)
    /\ streamRef' = 0
    /\ lastCall' = "stopStream"
    /\ UNCHANGED requests

\* What StreamViewer can be asked to show.
VideoSources == {"webcam", "file", "demo"}

\* The effect on [videoSource, selectedFile, startStream, stopStream]: page.tsx
\* mounts the viewer with the webcam as source, or the user chooses another
\* source.  The cleanup of the last run calls stopStream if that run was for
\* the webcam; setupVideoSource calls startStream if this one is.
SelectSource(s) ==
    /\ s # videoSource
    /\ videoSource = "none" => s = "webcam"
    /\ s = "webcam" => Len(acquired) + requests < MaxStreams
    /\ videoSource' = s
    /\ IF videoSource = "webcam" THEN StopStream
       ELSE IF s = "webcam" THEN StartStream
       ELSE UNCHANGED <<acquired, streamRef, requests, lastCall>>
    /\ UNCHANGED <<schedVars, now, cache, clientVars, trackVars, effectVars,
                   sideVars, activeSince, optimizerVars, srcObject>>

\* getUserMedia resolves with a new stream: startStream stores it in streamRef
\* and returns it, and setupVideoSource shows it.
GetUserMediaResolves ==
    /\ requests > 0
    /\ requests' = requests - 1
    /\ acquired' = Append(acquired, TRUE)
    /\ streamRef' = Len(acquired) + 1
    /\ srcObject' = Len(acquired) + 1
    /\ UNCHANGED <<schedVars, now, cache, clientVars, trackVars, effectVars,
                   sideVars, activeSince, optimizerVars, videoSource, lastCall>>

\* getUserMedia rejects: startStream returns null.
GetUserMediaRejects ==
    /\ requests > 0
    /\ requests' = requests - 1
    /\ UNCHANGED <<schedVars, now, cache, clientVars, trackVars, effectVars,
                   sideVars, activeSince, optimizerVars, videoSource, streamRef, acquired,
                   srcObject, lastCall>>

\* The track of a running stream ends by itself; handleStreamEnd, which listens
\* on the tracks of the current stream, clears the reference.
TrackEnded(s) ==
    /\ s \in 1..Len(acquired)
    /\ acquired[s]
    /\ acquired' = [acquired EXCEPT ![s] = FALSE]
    /\ streamRef' = IF s = streamRef THEN 0 ELSE streamRef
    /\ UNCHANGED <<schedVars, now, cache, clientVars, trackVars, effectVars,
                   sideVars, activeSince, optimizerVars, videoSource, requests, srcObject,
                   lastCall>>

StreamSpecInit ==
    /\ SchedInit
    /\ CacheInit
    /\ TrackInit
    /\ EffectInit
    /\ OptimizerInit
    /\ StreamInit
    /\ ViewerInit
    /\ RecorderInit
    /\ PixelateInit
    /\ privacySettings = defaultSettings
    /\ options = [enableTracking |-> FALSE, trackingThreshold |-> 0,
                  maxTrackingFrames |-> 0]

StreamNext ==
    \/ \E s \in VideoSources : SelectSource(s)
    \/ GetUserMediaResolves
    \/ GetUserMediaRejects
    \/ \E s \in 1..MaxStreams : TrackEnded(s)

StreamSpec == StreamSpecInit /\ [][StreamNext]_vars

----------------------------------------------------------------------------
(* The render loop of StreamViewer: the effect on [isProcessing,          *)
(* privacySettings, onStatsUpdate].  An animation-frame callback is the    *)
(* id requestAnimationFrame returned for it; the ids are 1, 2, ...         *)

\* A variant of the cleanup that cancels nothing.
ViewerCleanup_NoCancel(pendingFrames, effect) == pendingFrames

\* The cleanup the last run of the effect returned, if it returned one:
\* if (animationId) cancelAnimationFrame(animationId).
ViewerCleanup(pendingFrames, effect) ==
    IF effect.live /\ effect.animationId # 0
    THEN pendingFrames \ {effect.animationId}
    ELSE pendingFrames

\* processFrame of a closure whose isProcessing is true, with the video ready
\* or not: what it draws and emits, and the animation frame it requests.
\* onStatsUpdate sets state of the page, which renders the viewer again with
\* a new onStatsUpdate.
ViewerFrame(ready) ==
    /\ viewerOutput' =
          [drawn |-> viewerOutput.drawn + (IF ready THEN 1 ELSE 0),
           stats |-> viewerOutput.stats + (IF ready THEN 1 ELSE 0),
           requested |-> viewerOutput.requested + 1]
    /\ viewerDirty' = (ready \/ viewerDirty)

\* The page renders the viewer with isProcessing = p and a dependency of the
\* effect changed: isProcessing, privacySettings or onStatsUpdate.
ViewerRender(p) ==
    /\ ~viewerDirty
    /\ viewerProcessing' = p
    /\ viewerDirty' = TRUE
    /\ UNCHANGED <<schedVars, now, cache, clientVars, trackVars, effectVars,
                   activeSince, optimizerVars, streamVars, pixelateCalls,
                   recorderVars,
                   viewerEffect, animationFrames, viewerOutput>>

\* The effect runs after that render: the cleanup of its last run, then its
\* body, which returns at once when isProcessing is false and calls
\* processFrame otherwise.
ViewerEffect(ready) ==
    /\ viewerDirty
    /\ LET cleaned == ViewerCleanup(animationFrames, viewerEffect)
           id == viewerOutput.requested + 1
       IN IF ~viewerProcessing
          THEN /\ animationFrames' = cleaned
               /\ viewerEffect' = [live |-> FALSE, animationId |-> 0]
               /\ viewerDirty' = FALSE
               /\ UNCHANGED viewerOutput
          ELSE /\ viewerOutput.requested < MaxAnimationFrames
               /\ animationFrames' = cleaned \cup {id}
               /\ viewerEffect' = [live |-> TRUE, animationId |-> id]
               /\ viewerOutput' =
                     [drawn |-> viewerOutput.drawn + (IF ready THEN 1 ELSE 0),
                      stats |-> viewerOutput.stats + (IF ready THEN 1 ELSE 0),
                      requested |-> id]
               /\ viewerDirty' = ready
    /\ UNCHANGED <<schedVars, now, cache, clientVars, trackVars, effectVars,
                   activeSince, optimizerVars, streamVars, pixelateCalls,
                   recorderVars,
                   viewerProcessing>>

\* The host runs a pending animation-frame callback: processFrame of the
\* closure that requested it, which requests the next one and keeps its id
\* in the animationId of that closure.
AnimationFrame(id, ready) ==
    /\ id \in animationFrames
    /\ viewerOutput.requested < MaxAnimationFrames
    /\ ViewerFrame(ready)
    /\ animationFrames' =
          (animationFrames \ {id}) \cup {viewerOutput.requested + 1}
    /\ viewerEffect' =
          IF viewerEffect.live /\ viewerEffect.animationId = id
          THEN [viewerEffect EXCEPT !.animationId = viewerOutput.requested + 1]
          ELSE viewerEffect
    /\ UNCHANGED <<schedVars, now, cache, clientVars, trackVars, effectVars,
                   activeSince, optimizerVars, streamVars, pixelateCalls,
                   recorderVars,
                   viewerProcessing>>

ViewerSpecInit ==
    /\ SchedInit
    /\ CacheInit
    /\ TrackInit
    /\ EffectInit
    /\ OptimizerInit
    /\ StreamInit
    /\ ViewerInit
    /\ RecorderInit
    /\ PixelateInit
    /\ privacySettings = defaultSettings
    /\ options = [enableTracking |-> FALSE, trackingThreshold |-> 0,
                  maxTrackingFrames |-> 0]

ViewerNext ==
    \/ \E p \in BOOLEAN : ViewerRender(p)
    \/ \E ready \in BOOLEAN : ViewerEffect(ready)
    \/ \E id \in 1..MaxAnimationFrames, ready \in BOOLEAN : AnimationFrame(id, ready)

ViewerSpec == ViewerSpecInit /\ [][ViewerNext]_vars

----------------------------------------------------------------------------
(* VideoStreamHandler (videoUtils.ts): startRecording and stopRecording.   *)
(* A MediaRecorder is its place in recorders; a chunk is the recorder that *)
(* produced it.  start() is called without a timeslice, so that a recorder *)
(* delivers its data in one dataavailable event when it stops.             *)

\* this.mediaRecorder && this.mediaRecorder.state !== 'inactive'
RecorderBusy ==
    mediaRecorder # 0 /\ recorders[mediaRecorder].state # "inactive"

\* How startRecording can go once it is past its guard: it starts, the
\* MediaRecorder constructor throws, or start() throws.
StartOutcomes == {"started", "constructor throws", "start throws"}

\* startRecording(stream, options)
StartRecording(outcome) ==
    /\ RecorderBusy \/ outcome = "constructor throws" \/ Len(recorders) < MaxRecorders
    /\ IF RecorderBusy
       THEN /\ recording' = "Recording already in progress"
            /\ UNCHANGED <<mediaRecorder, recorders, recordedChunks>>
       ELSE IF outcome = "constructor throws"
       THEN /\ recording' = "failed"
            /\ UNCHANGED <<mediaRecorder, recorders, recordedChunks>>
       ELSE /\ recorders' = Append(recorders,
                   [state |-> IF outcome = "started" THEN "recording" ELSE "inactive",
                    queued |-> FALSE, onstop |-> FALSE])
            /\ mediaRecorder' = Len(recorders) + 1
            /\ recordedChunks' = << >>
            /\ recording' = IF outcome = "started" THEN "started" ELSE "failed"
    /\ UNCHANGED <<schedVars, now, cache, clientVars, trackVars, effectVars,
                   activeSince, optimizerVars, streamVars, pixelateCalls,
                   viewerVars, blobs>>

\* stopRecording(): the promise is rejected at once, or onstop is set and
\* stop() makes the recorder inactive and queues its dataavailable and stop
\* events.
StopRecording ==
    /\ IF ~RecorderBusy
       THEN /\ recording' = "No active recording to stop"
            /\ UNCHANGED recorders
       ELSE /\ recorders' = [recorders EXCEPT ![mediaRecorder] =
                                 [state |-> "inactive", queued |-> TRUE,
                                  onstop |-> TRUE]]
            /\ recording' = "stopping"
    /\ UNCHANGED <<schedVars, now, cache, clientVars, trackVars, effectVars,
                   activeSince, optimizerVars, streamVars, pixelateCalls,
                   viewerVars,
                   mediaRecorder, recordedChunks, blobs>>

\* The tracks of the recorded stream end: the recorder becomes inactive by
\* itself and queues the same events.
RecordedTracksEnd(r) ==
    /\ r \in 1..Len(recorders)
    /\ recorders[r].state = "recording"
    /\ recorders' = [recorders EXCEPT ![r].state = "inactive", ![r].queued = TRUE]
    /\ UNCHANGED <<schedVars, now, cache, clientVars, trackVars, effectVars,
                   activeSince, optimizerVars, streamVars, pixelateCalls,
                   viewerVars,
                   mediaRecorder, recordedChunks, recording, blobs>>

\* The queued events of recorder r are fired: ondataavailable pushes the data
\* onto this.recordedChunks if its size is not 0, then onstop, if
\* stopRecording has set it, resolves with a Blob of this.recordedChunks.
RecorderEvents(r, hasData) ==
    /\ r \in 1..Len(recorders)
    /\ recorders[r].queued
    /\ recorders' = [recorders EXCEPT ![r].queued = FALSE]
    /\ recordedChunks' = IF hasData THEN Append(recordedChunks, r) ELSE recordedChunks
    /\ blobs' = IF recorders[r].onstop
                THEN Append(blobs, [recorder |-> r, chunks |-> recordedChunks'])
                ELSE blobs
    /\ UNCHANGED <<schedVars, now, cache, clientVars, trackVars, effectVars,
                   activeSince, optimizerVars, streamVars, pixelateCalls,
                   viewerVars,
                   mediaRecorder, recording>>

RecorderSpecInit ==
    /\ SchedInit
    /\ CacheInit
    /\ TrackInit
    /\ EffectInit
    /\ OptimizerInit
    /\ StreamInit
    /\ ViewerInit
    /\ RecorderInit
    /\ PixelateInit
    /\ privacySettings = defaultSettings
    /\ options = [enableTracking |-> FALSE, trackingThreshold |-> 0,
                  maxTrackingFrames |-> 0]

RecorderNext ==
    \/ \E o \in StartOutcomes : StartRecording(o)
    \/ StopRecording
    \/ \E r \in 1..MaxRecorders : RecordedTracksEnd(r)
    \/ \E r \in 1..MaxRecorders, hasData \in BOOLEAN : RecorderEvents(r, hasData)

RecorderSpec == RecorderSpecInit /\ [][RecorderNext]_vars

----------------------------------------------------------------------------
(* applyPixelateEffect by itself (videoUtils.ts) *)

\* The regions VideoProcessor.processFrame may pass, in hundredths of a pixel
\* (face.x * canvas.width and so on): 16 x 16 and 12 x 12 pixels, the whole
\* frame, a region that extends past the right and bottom edges, regions 3.6,
\* 2.5 and 10.5 pixels wide (faces 0.18, 0.125 and 0.525 of the width of the
\* canvas) and a region of no width.
PixelateRegions ==
    { [x |-> 200, y |-> 200, width |-> 1600, height |-> 1600],
      [x |-> 400, y |-> 400, width |-> 1200, height |-> 1200],
      [x |-> 0, y |-> 0, width |-> 2000, height |-> 2000],
      [x |-> 1000, y |-> 1000, width |-> 2000, height |-> 2000],
      [x |-> 500, y |-> 500, width |-> 360, height |-> 360],
      [x |-> 500, y |-> 500, width |-> 250, height |-> 300],
      [x |-> 200, y |-> 200, width |-> 1050, height |-> 1050],
      [x |-> 500, y |-> 500, width |-> 0, height |-> 1000] }

\* Math.max(8, options.blurIntensity) for the intensities of EffectSettings.
PixelSizes == {Max(minPixelSize, i) : i \in {5, 12}}

\* this.applyPixelateEffect(x, y, width, height, pixelSize) on the canvas as
\* it is.
ApplyPixelateEffect(box, pixelSize) ==
    /\ Len(pixelateCalls) < MaxPixelateCalls
    /\ LET r == Pixelate(surface, box, pixelSize)
       IN /\ surface' = r.surface
          /\ threw' = r.threw
    /\ pixelateCalls' = Append(pixelateCalls,
                               [box |-> box, pixelSize |-> pixelSize])
    /\ UNCHANGED <<schedVars, now, cache, clientVars, trackVars, privacySettings,
                   passFaces, effects, caller, processorFrames, activeSince,
                   optimizerVars, streamVars, viewerVars, recorderVars>>

\* A VideoProcessor whose processFrame has set the size of the canvas and
\* drawn the frame.
PixelateSpecInit ==
    /\ SchedInit
    /\ CacheInit
    /\ TrackInit
    /\ OptimizerInit
    /\ StreamInit
    /\ ViewerInit
    /\ RecorderInit
    /\ PixelateInit
    /\ privacySettings = defaultSettings
    /\ options = [enableTracking |-> FALSE, trackingThreshold |-> 0,
                  maxTrackingFrames |-> 0]
    /\ surface = Frame
    /\ passFaces = << >>
    /\ effects = << >>
    /\ threw = FALSE
    /\ caller = "processor"
    /\ processorFrames = 0

PixelateNext ==
    \E box \in PixelateRegions, pixelSize \in PixelSizes :
        ApplyPixelateEffect(box, pixelSize)

PixelateSpec == PixelateSpecInit /\ [][PixelateNext]_vars

----------------------------------------------------------------------------
(* Properties of the frame scheduler *)

\* A processFrame pass reaches its finally block, by an exception or not.
PassFails ==
    \/ \E l \in Loops : FrameDrawFails(l)
    \/ \E l \in Loops : FrameFromCache(l, TRUE)
    \/ \E i \in 1..MaxInFlight, f \in DetectorResults : DetectorDone(i, f, TRUE)

PassEnds ==
    \/ PassFails
    \/ \E l \in Loops : FrameFromCache(l, FALSE)
    \/ DetectorReturns

\* C1: at most one processFrame pass is between processingRef.current = true and
\* its finally block, in every reachable state.
C1_AtMostOnePassInFlight == Len(passes) <= 1

\* C2: once isActive is false, a callback of a loop started by startProcessing
\* starts no pass and schedules no further callback.
C2_StoppedLoopExits ==
    [][\A l \in Loops :
          (~isActive /\ Callback(l)) => (~loops'[l].live /\ started' = started)]_vars

\* C3: a callback that fires while a pass is suspended on its detector call does
\* no pipeline work: no pass begins, nothing is drawn, detected or stored, and
\* the frame counter and the dropped-frame counter stay as they are.
C3_CallbackDuringPassIsDropped ==
    [][\A l \in Loops :
          (passes # << >> /\ Callback(l)) =>
              UNCHANGED <<passes, processingRef, frameCountRef, lastTimeRef,
                          droppedFrames, cache, emitted, applied, started>>]_vars

\* C4: a pass that ends, by success or by an exception, leaves the in-flight
\* guard cleared, and while isActive stays true a new pass begins afterwards
\* (as long as the model's bound on passes allows one).
C4_FailedFrameDoesNotStopLoop ==
    /\ [][PassEnds => ~processingRef']_vars
    /\ \A s \in 1..(MaxStarted - 1) :
          (lastEvent \in {"end", "fail"} /\ started = s /\ isActive)
              ~> (started > s \/ ~isActive)

\* A pass has just failed while the scheduler is running: the guard is clear and
\* the loop that ran it still has its callback pending.
C4_Witness ==
    /\ lastEvent = "fail"
    /\ isActive
    /\ ~processingRef
    /\ started < MaxStarted
    /\ \E l \in Loops : loops[l].live /\ loops[l].active /\ loops[l].loaded

\* C5: droppedFrames grows by one in a pass that throws and by nothing otherwise.
C5_FailedPassCountedAsDropped ==
    [][droppedFrames' = droppedFrames + (IF PassFails THEN 1 ELSE 0)]_vars

----------------------------------------------------------------------------
(* Properties of the result cache *)

\* The number of the last store of key in the log lg.
LastStoredAt(lg, key) ==
    CHOOSE i \in 1..Len(lg) :
        lg[i].key = key /\ \A j \in (i + 1)..Len(lg) : lg[j].key # key

\* C6: a lookup returns the stored faces exactly when an entry with the key
\* exists and is younger than 100 ms; a lookup at the instant of the store of
\* that key returns the stored faces, one 100 ms or more after it returns nothing.
C6_LookupHitsIffFresh ==
    [][\A k \in LookupKeys :
          Lookup(k) =>
              LET r == lookup'.result
                  n == Len(log)
                  young == {i \in 1..Len(cache) :
                              cache[i].key = k /\ now - cache[i].timestamp < 100}
              IN /\ r.hit <=> young # {}
                 /\ \A i \in young : r.faces = cache[i].faces
                 /\ (n > 0 /\ log[n].key = k /\ log[n].at = now)
                       => (r.hit /\ r.faces = log[n].faces)
                 /\ (n > 0 /\ log[n].key = k /\ now - log[n].at >= 100)
                       => ~r.hit]_vars

\* A lookup of the key stored last, exactly 100 ms after its store, missed.
C6_Witness ==
    /\ log # << >>
    /\ lookup.key = log[Len(log)].key
    /\ lookup.at - log[Len(log)].at = 100
    /\ ~lookup.result.hit

\* C7: the cache never holds more than 50 entries.
C7_CacheWithinCapacity == Len(cache) <= 50

\* The cache is full after a store that evicted an entry.
C7_Witness == Len(cache) = 50 /\ Len(log) > 50 /\ pending = 0

DistinctKeys(lg) ==
    \A i, j \in 1..Len(lg) : lg[i].key = lg[j].key => i = j

\* C8: after 51 stores of distinct keys into an empty cache, the first key is
\* absent and the 50 stored after it are present.
C8_FirstOfFiftyOneEvicted ==
    (Len(log) = 51 /\ DistinctKeys(log)) =>
        /\ log[1].key \notin CacheKeys(cache)
        /\ CacheKeys(cache) = {log[i].key : i \in 2..51}
        /\ Len(cache) = 50

C8_Witness == Len(log) = 51 /\ DistinctKeys(log) /\ pending = 0

\* C9: a store that makes the count exceed 50 evicts exactly one entry, and never
\* an entry stored later than one that remains.
C9_EvictionOldestFirst ==
    [][\A k \in StoreKeys :
          ((Store(k) \/ (FillStore /\ k = FreshKey))
              /\ k \notin CacheKeys(cache) /\ Len(cache) = 50) =>
              LET evicted == (CacheKeys(cache) \cup {k}) \ CacheKeys(cache') IN
              /\ Cardinality(evicted) = 1
              /\ \A e \in evicted : \A r \in CacheKeys(cache') :
                    LastStoredAt(log', e) < LastStoredAt(log', r)]_vars

\* C10: a store under a key that has an entry replaces the entry's faces and
\* timestamp and adds no entry, and a lookup of that key within the timeout of
\* that store returns the faces stored last.
C10_OverwriteLastWriteWins ==
    [][/\ \A k \in StoreKeys :
            (Store(k) /\ k \in CacheKeys(cache)) =>
                /\ Len(cache') = Len(cache)
                /\ CacheKeys(cache') = CacheKeys(cache)
                /\ \A i \in 1..Len(cache') :
                      cache'[i].key = k =>
                          /\ cache'[i].faces = log'[Len(log')].faces
                          /\ cache'[i].faces # cache[i].faces
                          /\ cache'[i].timestamp = now
       /\ \A k \in LookupKeys :
            LET n == Len(log) IN
            (/\ Lookup(k)
             /\ n > 1
             /\ log[n].key = k
             /\ \E j \in 1..(n - 1) : log[j].key = k
             /\ now - log[n].at < 100) =>
                lookup'.result = [hit |-> TRUE, faces |-> log[n].faces]]_vars

\* A key was stored twice and a later lookup, within the timeout of the second
\* store, returned the second faces.
C10_Witness ==
    LET n == Len(log) IN
    /\ n > 1
    /\ lookup.key = log[n].key
    /\ \E j \in 1..(n - 1) : log[j].key = lookup.key
    /\ lookup.at > log[n].at
    /\ lookup.result = [hit |-> TRUE, faces |-> log[n].faces]

\* C11: clear() leaves the cache without entries, so that every lookup made
\* after it and before the next store misses; and reinitialize() empties the
\* cache in the step that marks the model as not loaded, before initialize()
\* loads it again.
C11_ClearDropsEveryEntry ==
    [][/\ (Clear \/ Reinitialize) => cache' = << >>
       /\ \A k \in LookupKeys :
             (Lookup(k) /\ log = << >>) => ~lookup'.result.hit
       /\ Reinitialize => (~isModelLoaded' /\ Len(cache') = 0)
       /\ (isModelLoaded' /\ ~isModelLoaded) => UNCHANGED cache]_vars

\* A lookup of a key whose fresh entry the last clear() removed was made after
\* that clear() and before any store, and missed.
C11_Witness ==
    /\ log = << >>
    /\ lookup # NoLookup
    /\ lookup.key \in dropped
    /\ lookup.at - cacheTimeout < 0
    /\ ~lookup.result.hit

----------------------------------------------------------------------------
(* Properties of detectFaces and of the identity tracker *)

\* A step that is one detectAndTrack call.
TrackingCall ==
    \/ \E d \in CallSteps, o \in DetectorOutcomes : DetectAndTrack(d, o)
    \/ ReplayCall

\* The detections of the call just made that were given the tracking id.
ClaimsOf(id) ==
    {i \in 1..Len(trackedResults') : trackedResults'[i].trackingId = id}

\* C12: a face that is detected in every call and matches its identity each
\* time keeps its trackingId: when the previous call returned one face and this
\* call detects one face within the threshold of it, and of no other live
\* identity, the face is returned with the trackingId it had.
C12_MatchedFaceKeepsTrackingId ==
    [][(/\ TrackingCall
        /\ options.enableTracking
        /\ Len(trackedResults) = 1
        /\ Len(detected') = 1
        /\ Distance2(detected'[1], trackedResults[1])
              < Threshold(options) * Threshold(options)
        /\ \A j \in 1..Len(trackedFaces) :
              trackedFaces[j].trackingId # trackedResults[1].trackingId =>
                  Distance2(detected'[1], trackedFaces[j])
                      >= Threshold(options) * Threshold(options))
          => trackedResults'[1].trackingId = trackedResults[1].trackingId]_vars

C14_SilentIdentityExpires ==
    [][(TrackingCall /\ options.enableTracking) =>
          \A j \in 1..Len(trackedFaces) :
              LET e == trackedFaces[j] IN
              ClaimsOf(e.trackingId) = {} =>
                  IF silent[e.trackingId] + 1 <= MaxFrames(options)
                  THEN \E k \in 1..Len(trackedFaces') : trackedFaces'[k] = e
                  ELSE e.trackingId \notin TrackedIds(trackedFaces')]_vars

\* C16: detectFaces of a render whose model is not loaded resolves to no faces
\* without a detector call and leaves the cache as it is; a detector call that
\* throws makes detectFaces resolve to no faces with nothing stored in the
\* cache, and the call that awaited it returns normally, with no detections.
C16_DetectorFailureIsZeroFaces ==
    [][/\ (TrackingCall /\ ~isModelLoaded) =>
             /\ detected' = << >>
             /\ detector' = "skipped"
             /\ trackedResults' = << >>
             /\ UNCHANGED cache
       /\ \A d \in CallSteps :
             (/\ DetectAndTrack(d, Throws)
              /\ isModelLoaded
              /\ ~GetCachedResult(cache, GenerateCacheKey(now + d), now + d).hit) =>
                 /\ detector' = "threw"
                 /\ detected' = << >>
                 /\ trackedResults' = << >>
                 /\ UNCHANGED <<cache, isModelLoaded>>]_vars

\* A detector call threw while a result of an earlier call was cached and an
\* identity was live: no faces, the cache and the identity as they were.
C16_Witness ==
    /\ detector = "threw"
    /\ isModelLoaded
    /\ detected = << >>
    /\ trackedResults = << >>
    /\ cache # << >>
    /\ trackedFaces # << >>
    /\ trackedFaces = before

\* C19: each detection is matched to the identity of newTrackedFaces at the
\* smallest distance from it among those at a distance strictly below the
\* threshold, the first of them in the Map's order when several are at that
\* smallest distance, and to none when there is no identity below the threshold.
C19_NearestIdentityBelowThreshold ==
    [][(TrackingCall /\ options.enableTracking) =>
          \A i \in 1..Len(detected') :
              LET live == TrackFaces(trackedFaces, nextId, detected',
                                     Threshold(options), i - 1).tracked
                  face == detected'[i]
                  near == {j \in 1..Len(live) :
                             Distance2(face, live[j])
                                 < Threshold(options) * Threshold(options)}
                  nearest == {j \in near : \A k \in near :
                                Distance2(face, live[j]) <= Distance2(face, live[k])}
                  got == trackedResults'[i].trackingId
              IN IF near = {}
                 THEN got \notin TrackedIds(live)
                 ELSE \E j \in nearest :
                         /\ got = live[j].trackingId
                         /\ \A k \in nearest : j <= k]_vars

\* A detection at the same distance, below the default threshold of 0.3, of two
\* live identities was given the id of the first; the second is as it was.
C19_Witness ==
    /\ options.enableTracking
    /\ options.trackingThreshold = 0
    /\ Len(before) = 2
    /\ Len(detected) = 1
    /\ Distance2(detected[1], before[1]) = Distance2(detected[1], before[2])
    /\ Distance2(detected[1], before[1]) < 30 * 30
    /\ trackedResults[1].trackingId = before[1].trackingId
    /\ Len(trackedFaces) = 2
    /\ trackedFaces[2] = before[2]

\* C20: in one call every live identity is claimed by at most one detection,
\* and its age grows by at most 1.
C20_IdentityClaimedOncePerCall ==
    [][(TrackingCall /\ options.enableTracking) =>
          \A j \in 1..Len(trackedFaces) :
              LET e == trackedFaces[j] IN
              /\ Cardinality(ClaimsOf(e.trackingId)) <= 1
              /\ \A k \in 1..Len(trackedFaces') :
                    trackedFaces'[k].trackingId = e.trackingId =>
                        trackedFaces'[k].frameCount <= e.frameCount + 1]_vars

----------------------------------------------------------------------------
(* Properties of the effects *)

\* C15: in a pass of the component the effect is applied exactly once to each
\* detected face whose confidence is at or above the detection threshold and
\* not at all to a face whose confidence is below it, and every call returns.
C15_EffectOncePerQualifyingFace ==
    caller = "component" =>
        /\ ~threw
        /\ \A i \in 1..Len(passFaces) :
              Cardinality({j \in 1..Len(effects) : effects[j] = i})
                  = IF passFaces[i].confidence >= privacySettings.detectionSensitivity
                    THEN 1
                    ELSE 0

\* A pass at threshold 0.95 over faces of confidence 0.9, 0.75 and 0.98: the
\* effect was applied to the third face, once, and to no other.
C15_Witness ==
    /\ caller = "component"
    /\ privacySettings.detectionSensitivity = 95
    /\ Len(passFaces) = 3
    /\ passFaces[1].confidence = 90
    /\ passFaces[3].confidence = 98
    /\ effects = <<3>>
    /\ surface # Frame

\* The pixels of the canvas that lie within a region.
PixelsWithin(box) ==
    {q \in (0..(videoWidth - 1)) \X (0..(videoHeight - 1)) :
        /\ q[1] * 100 >= box.x /\ (q[1] + 1) * 100 <= box.x + box.width
        /\ q[2] * 100 >= box.y /\ (q[2] + 1) * 100 <= box.y + box.height}

\* The red, green and blue channels of pixel (x, y) of a canvas.
Colour(s, x, y) ==
    <<s[PixelIndex(x, y)], s[PixelIndex(x, y) + 1], s[PixelIndex(x, y) + 2]>>

\* Every pixel within the region has the colour that the top-left pixel of
\* its block, of the given side, had in the frame.
Pixelated(box, side) ==
    \A q \in PixelsWithin(box) :
        LET left == box.x + ((q[1] * 100 - box.x) \div (side * 100)) * side * 100
            top == box.y + ((q[2] * 100 - box.y) \div (side * 100)) * side * 100
        IN Colour(surface, q[1], q[2]) = Colour(Frame, Trunc(left), Trunc(top))

\* C17: after pixelate has run on a region, every pixel of every block of side
\* max(8, intensity) of the region, the partial blocks at its right and bottom
\* edges included, has the colour the block's top-left pixel had before.
C17_PixelateBlocksUniform ==
    (/\ caller # "none"
     /\ privacySettings.anonymizationMode = "pixelate"
     /\ Len(effects) = 1
     /\ ~threw)
        => Pixelated(FaceBox(passFaces[effects[1]]),
                     IF privacySettings.blurIntensity > 8
                     THEN privacySettings.blurIntensity ELSE 8)

\* The same for the regions that are made of whole pixels.
WholePixels(box) ==
    box.x % 100 = 0 /\ box.y % 100 = 0 /\ box.width % 100 = 0 /\ box.height % 100 = 0

PixelateBlocksUniformOnWholePixels ==
    (/\ caller # "none"
     /\ privacySettings.anonymizationMode = "pixelate"
     /\ Len(effects) = 1
     /\ ~threw
     /\ WholePixels(FaceBox(passFaces[effects[1]])))
        => Pixelated(FaceBox(passFaces[effects[1]]),
                     IF privacySettings.blurIntensity > 8
                     THEN privacySettings.blurIntensity ELSE 8)

\* A 16 x 16 region pixelated at intensity 5, in four blocks of side 8.
SixteenBySixteen ==
    /\ caller = "processor"
    /\ privacySettings.anonymizationMode = "pixelate"
    /\ privacySettings.blurIntensity = 5
    /\ passFaces = <<FaceAt(10, 10, 80, 80, 90)>>
    /\ ~threw
    /\ Colour(surface, 9, 9) = Colour(Frame, 2, 2)
    /\ Colour(surface, 10, 9) = Colour(Frame, 10, 2)
    /\ Colour(surface, 9, 10) = Colour(Frame, 2, 10)
    /\ Colour(surface, 17, 17) = Colour(Frame, 10, 10)
    /\ Colour(surface, 18, 18) = Colour(Frame, 18, 18)

\* C18: an effect applied to a region that extends past the edge of the canvas
\* or has no area does not throw and writes to pixels of the canvas only, and
\* effects applied to regions of no area change no pixel.
C18_RegionClampedZeroAreaNoOp ==
    caller # "none" =>
        /\ ~threw
        /\ Len(surface) = Len(Frame)
        /\ (\A j \in 1..Len(effects) :
               LET box == FaceBox(passFaces[effects[j]])
               IN box.width = 0 \/ box.height = 0)
              => surface = Frame

----------------------------------------------------------------------------
(* More properties of the identity tracker *)

\* A step that is one more call through the callback of the last call.
OverlappingCall ==
    \E d \in CallSteps, o \in DetectorOutcomes : DetectAndTrackAgain(d, o)

AnyCall == TrackingCall \/ OverlappingCall

\* The identity of a tracking id in a Map that has it.
Tracked(m, id) == m[TrackedIndex(m, id)]

\* C21: every detection of a call that is given the id of no live identity has
\* a newly generated trackingId, whose identity is live with age 1 after the
\* call; and after a call with more detections than there were live identities
\* there are at least as many live identities as the call had detections.
C21_UnmatchedDetectionSpawns ==
    [][(TrackingCall /\ options.enableTracking) =>
          /\ \A i \in 1..Len(trackedResults') :
                LET id == trackedResults'[i].trackingId IN
                id \notin TrackedIds(trackedFaces) =>
                    /\ id \in (nextId + 1)..nextId'
                    /\ id \in TrackedIds(trackedFaces')
                    /\ Tracked(trackedFaces', id).frameCount = 1
          /\ Len(detected') > Len(trackedFaces) =>
                Len(trackedFaces') >= Len(detected')]_vars

\* C22: the entries a call returns have trackingIds that differ two by two,
\* and so have the live identities after the call.
C22_TrackingIdsUnique ==
    [][(TrackingCall /\ options.enableTracking) =>
          /\ \A i, j \in 1..Len(trackedResults') :
                i # j => trackedResults'[i].trackingId # trackedResults'[j].trackingId
          /\ \A i, j \in 1..Len(trackedFaces') :
                i # j => trackedFaces'[i].trackingId # trackedFaces'[j].trackingId]_vars

\* The second half alone: the live identities have different trackingIds.
LiveIdsUnique ==
    \A i, j \in 1..Len(trackedFaces) :
        i # j => trackedFaces[i].trackingId # trackedFaces[j].trackingId

\* C23: a call with no detection returns the empty sequence, generates no id,
\* and leaves live only identities that the Map it started from had, as they
\* were there; no identity that was live has a greater age after it.
C23_NoDetectionNoChange ==
    [][(AnyCall /\ detected' = << >>) =>
          /\ trackedResults' = << >>
          /\ nextId' = nextId
          /\ \A j \in 1..Len(trackedFaces') :
                \E k \in 1..Len(before') : trackedFaces'[j] = before'[k]
          /\ \A j \in 1..Len(trackedFaces') :
                LET e == trackedFaces'[j] IN
                e.trackingId \in TrackedIds(trackedFaces) =>
                    e.frameCount <= Tracked(trackedFaces, e.trackingId).frameCount]_vars

\* A call in which the detector returned no face while one identity was live:
\* nothing is returned and the identity is as it was.
C23_Witness ==
    /\ options.enableTracking
    /\ detector = "returned"
    /\ detected = << >>
    /\ trackedResults = << >>
    /\ Len(trackedFaces) = 1
    /\ trackedFaces = before
    /\ nextId = 1

\* C28: when one more call is made through the callback of the last call, the
\* identities that the last call created are live after it, and no identity
\* that stays live has a smaller age after it.
C28_OverlappingCallsKeepUpdates ==
    [][(OverlappingCall /\ options.enableTracking) =>
          /\ TrackedIds(trackedFaces) \ TrackedIds(before)
                \subseteq TrackedIds(trackedFaces')
          /\ \A j \in 1..Len(trackedFaces) :
                LET e == trackedFaces[j] IN
                e.trackingId \in TrackedIds(trackedFaces') =>
                    Tracked(trackedFaces', e.trackingId).frameCount >= e.frameCount]_vars

\* C30: after every call with tracking enabled the age of every live identity
\* is between 1 and maxTrackingFrames, and the age of an identity that was
\* live before the call and is live after it has not decreased.
C30_AgeWithinRange ==
    [][(AnyCall /\ options.enableTracking) =>
          /\ \A j \in 1..Len(trackedFaces') :
                trackedFaces'[j].frameCount \in 1..MaxFrames(options)
          /\ \A j \in 1..Len(trackedFaces) :
                LET e == trackedFaces[j] IN
                e.trackingId \in TrackedIds(trackedFaces') =>
                    Tracked(trackedFaces', e.trackingId).frameCount >= e.frameCount]_vars

\* C26: detectFaces of a render whose model is loaded, when the cache holds a
\* fresh entry under the key of the call, returns the faces of that entry,
\* does not call the detector and leaves the cache as it is; when it holds
\* none and the detector returns, the detector is called once, its faces are
\* returned, and after the call the cache holds them under that key.
C26_DetectorOnlyOnCacheMiss ==
    [][\A d \in CallSteps, o \in DetectorOutcomes :
          (DetectAndTrack(d, o) /\ isModelLoaded) =>
              LET t == now + d
                  key == t \div keyResolution
                  fresh == {i \in 1..Len(cache) :
                               /\ cache[i].key = key
                               /\ t - cache[i].timestamp < cacheTimeout}
              IN IF fresh # {}
                 THEN /\ detector' = "cached"
                      /\ \E i \in fresh : detected' = cache[i].faces
                      /\ UNCHANGED cache
                 ELSE ~o.throws =>
                      /\ detector' = "returned"
                      /\ detected' = o.faces
                      /\ \E i \in 1..Len(cache') :
                            /\ cache'[i].key = key
                            /\ cache'[i].faces = o.faces
                            /\ cache'[i].timestamp = t]_vars

\* A call found in the cache the faces that the call before it had stored.
C26_Witness ==
    /\ isModelLoaded
    /\ detector = "cached"
    /\ detected # << >>
    /\ calls = 2
    /\ \E i \in 1..Len(cache) : cache[i].faces = detected

\* C33: detectAndTrack returns one entry per detection, in the order of the
\* detections and with their geometry; with tracking enabled every entry
\* carries a trackingId that is in the live set the call wrote, and with
\* tracking disabled no entry carries one and the live set is unchanged.
C33_OneEntryPerDetection ==
    [][TrackingCall =>
          /\ Len(trackedResults') = Len(detected')
          /\ \A i \in 1..Len(detected') :
                /\ trackedResults'[i].x = detected'[i].x
                /\ trackedResults'[i].y = detected'[i].y
                /\ IF options.enableTracking
                   THEN /\ trackedResults'[i].trackingId # 0
                        /\ trackedResults'[i].trackingId \in TrackedIds(trackedFaces')
                   ELSE trackedResults'[i].trackingId = 0
          /\ ~options.enableTracking => UNCHANGED trackedFaces]_vars

----------------------------------------------------------------------------
(* Properties of FrameRateOptimizer *)

\* C27: for calls at non-decreasing times, shouldProcessFrame returns true
\* exactly when currentTime - lastFrameTime >= 1000 / targetFPS, it sets
\* lastFrameTime to currentTime when it returns true and leaves it alone when
\* it returns false, and an accepted frame is at least 1000 / targetFPS ms
\* after every frame accepted before it.
C27_ThrottlesToTargetRate ==
    [][frames' # frames =>
          LET n == Len(frames')
              c == frames'[n]
          IN /\ c.result <=> (c.time - lastFrameTime) * targetFPS >= 1000
             /\ lastFrameTime' = IF c.result THEN c.time ELSE lastFrameTime
             /\ c.result =>
                   \A i \in 1..(n - 1) :
                       frames'[i].result =>
                           (c.time - frames'[i].time) * c.fps >= 1000]_vars

\* A frame was accepted, the next one at the same time was refused, and the
\* one exactly 1000 / targetFPS ms after the first was accepted.
C27_Witness ==
    /\ Len(frames) = 3
    /\ frames[1].result
    /\ ~frames[2].result
    /\ frames[3].result
    /\ (frames[3].time - frames[1].time) * frames[3].fps = 1000
    /\ lastFrameTime = frames[3].time

----------------------------------------------------------------------------
(* Properties of useMediaStream *)

\* The acquired streams whose tracks are running.
Running == {s \in 1..Len(acquired) : acquired[s]}

\* C29: when no startStream call is pending, every acquired stream that has
\* running tracks is the one streamRef refers to, so that at most one is
\* running; and when moreover stopStream was the last call of the hook, no
\* acquired stream has running tracks.
C29_NoStreamLeftRunning ==
    requests = 0 =>
        /\ Running \subseteq {streamRef}
        /\ lastCall = "stopStream" => Running = {}

----------------------------------------------------------------------------
(* Properties of the statistics of the frame scheduler *)

\* A processFrame pass reaches the end of its try block.
PassCompletes ==
    \/ \E l \in Loops : FrameFromCache(l, FALSE)
    \/ \E i \in 1..MaxInFlight, f \in DetectorResults : DetectorDone(i, f, FALSE)
    \/ \E i \in 1..MaxInFlight : DetectorFails(i)

\* The start of the current statistics window: the last emission, or the start
\* of processing if nothing was emitted since.
WindowStart == IF lastTimeRef > activeSince THEN lastTimeRef ELSE activeSince

\* C24: a pass that completes while the component is active counts one frame;
\* if 1000 ms or more have elapsed since the start of the current window, the
\* statistics are emitted with the frames of the window and the time elapsed
\* (fps = frames * 1000 / elapsed) and the counter and the window start are
\* reset, and otherwise nothing is emitted: in particular not in the first
\* window after the start when it is shorter than 1000 ms.
C24_StatsEveryFullWindow ==
    [][(PassCompletes /\ isActive) =>
          IF now - WindowStart >= statsWindow
          THEN /\ emitted'.frames = frameCountRef + 1
               /\ emitted'.elapsed = now - WindowStart
               /\ frameCountRef' = 0
               /\ lastTimeRef' = now
          ELSE /\ frameCountRef' = frameCountRef + 1
               /\ UNCHANGED <<emitted, lastTimeRef>>]_vars

\* C25: while isActive is false the frame counter and the window start are 0
\* and no statistics are emitted, whatever pass finishes in the meantime.
C25_StatsResetWhileStopped ==
    [][~isActive' =>
          /\ frameCountRef' = 0
          /\ lastTimeRef' = 0
          /\ ~isActive => emitted' = emitted]_vars

----------------------------------------------------------------------------
(* More properties of FaceDetectionCache *)

\* C32: getCachedResult is read-only: a lookup, whether it hits, misses on an
\* absent key or misses on an expired entry, leaves the entries of the cache,
\* their faces, their timestamps and their order as they were.
C32_LookupReadOnly ==
    [][(\E k \in LookupKeys : Lookup(k)) => cache' = cache]_vars

\* The last lookup found an entry that had expired, and the entry is still in
\* the cache.
C32_Witness ==
    /\ ~lookup.result.hit
    /\ \E i \in 1..Len(cache) :
          /\ cache[i].key = lookup.key
          /\ lookup.at - cache[i].timestamp >= cacheTimeout

\* The 100 ms bucket of a time.
Bucket(t) == t \div keyResolution

\* C31: a lookup with the key generated at the time of the lookup hits exactly
\* when a result was stored earlier in the 100 ms bucket of that time, and an
\* entry found under that key is never too old to be returned.
C31_HitIffStoredInBucket ==
    /\ GetCachedResult(cache, GenerateCacheKey(now), now).hit <=>
           \E i \in 1..Len(cache) : Bucket(cache[i].timestamp) = Bucket(now)
    /\ \A i \in 1..Len(cache) :
           cache[i].key = GenerateCacheKey(now) =>
               now - cache[i].timestamp < cacheTimeout

----------------------------------------------------------------------------
(* Properties of the render loop of StreamViewer *)

\* C34: the viewer has at most one pending animation-frame callback at any
\* time, however often its effect runs again; and while isProcessing is false
\* and the cleanup of the last processing run has run, no frame is drawn and
\* no statistics are emitted.
C34_OnePendingFrame ==
    [][/\ Cardinality(animationFrames') <= 1
       /\ (~viewerProcessing /\ ~viewerEffect.live) =>
              /\ viewerOutput'.drawn = viewerOutput.drawn
              /\ viewerOutput'.stats = viewerOutput.stats
              /\ (~viewerProcessing' => animationFrames' = {})]_vars

\* Processing was stopped after frames were drawn by the effect and by an
\* animation-frame callback, and the cleanup has cancelled the pending one.
C34_Witness ==
    /\ ~viewerProcessing
    /\ ~viewerEffect.live
    /\ ~viewerDirty
    /\ animationFrames = {}
    /\ viewerOutput.drawn >= 2
    /\ viewerOutput.requested >= 3

----------------------------------------------------------------------------
(* Properties of VideoStreamHandler *)

\* C35: startRecording while the recorder is not inactive is rejected with
\* 'Recording already in progress' and leaves the recorder and the chunks as
\* they are; stopRecording with no recorder or an inactive one is rejected
\* with 'No active recording to stop'; a startRecording that succeeds leaves
\* an empty chunk list; and every blob stopRecording resolves with holds only
\* chunks of the recording it stopped.
C35_RecorderLifecycleGuarded ==
    [][/\ \A o \in StartOutcomes :
             (StartRecording(o) /\ RecorderBusy) =>
                 /\ recording' = "Recording already in progress"
                 /\ UNCHANGED <<mediaRecorder, recorders, recordedChunks>>
       /\ (StopRecording /\ ~RecorderBusy) =>
             recording' = "No active recording to stop"
       /\ (StartRecording("started") /\ ~RecorderBusy) =>
             recordedChunks' = << >>
       /\ \A b \in 1..Len(blobs') :
             \A k \in 1..Len(blobs'[b].chunks) :
                 blobs'[b].chunks[k] = blobs'[b].recorder]_vars

----------------------------------------------------------------------------
(* Properties of applyPixelateEffect *)

\* A step that is an applyPixelateEffect call, and the region of that call.
PixelateStep == Len(pixelateCalls') = Len(pixelateCalls) + 1
PixelateRegion == pixelateCalls'[Len(pixelateCalls')].box

\* The call repeats the call before it: the same region and block size.
PixelateAgain ==
    /\ PixelateStep
    /\ pixelateCalls # << >>
    /\ pixelateCalls'[Len(pixelateCalls')] = pixelateCalls[Len(pixelateCalls)]

\* Element k of the canvas array belongs to a pixel that no part of the
\* region covers.
OutsideRegion(k, box) ==
    \/ ~Overlaps(PixelX(k), box.x, box.x + box.width)
    \/ ~Overlaps(PixelY(k), box.y, box.y + box.height)

\* The parts of the statement: a repeated call changes no pixel; a call
\* changes no alpha value; a call changes no pixel outside its region.
PixelateTwiceIsOnce == PixelateAgain => surface' = surface

PixelateKeepsAlpha ==
    PixelateStep =>
        \A k \in DOMAIN surface : Channel(k) = 3 => surface'[k] = surface[k]

PixelateKeepsOutside ==
    PixelateStep =>
        /\ DOMAIN surface' = DOMAIN surface
        /\ \A k \in DOMAIN surface :
               OutsideRegion(k, PixelateRegion) => surface'[k] = surface[k]

\* C36: applying applyPixelateEffect a second time with the same region and
\* block size leaves the pixels as the first application left them, and no
\* application changes an alpha value or a pixel outside its region.
C36_PixelateIdempotent ==
    [][PixelateTwiceIsOnce /\ PixelateKeepsAlpha /\ PixelateKeepsOutside]_vars

\* The same without the alpha channel, and the whole statement for the
\* regions that are made of whole pixels.
PixelateIdempotentKeepsOutside ==
    [][PixelateTwiceIsOnce /\ PixelateKeepsOutside]_vars

PixelateIdempotentOnWholePixels ==
    [][WholePixels(PixelateRegion) =>
          PixelateTwiceIsOnce /\ PixelateKeepsAlpha /\ PixelateKeepsOutside]_vars

\* A 16 x 16 region was pixelated twice at block size 8 and has four blocks.
PixelatedTwice ==
    /\ Len(pixelateCalls) = 2
    /\ pixelateCalls[1] = pixelateCalls[2]
    /\ pixelateCalls[1].box = [x |-> 200, y |-> 200, width |-> 1600, height |-> 1600]
    /\ pixelateCalls[1].pixelSize = 8
    /\ Colour(surface, 9, 9) = Colour(Frame, 2, 2)
    /\ Colour(surface, 17, 17) = Colour(Frame, 10, 10)
    /\ surface # Frame

====
